---- MODULE Spec2Model ----
(***************************************************************************)
(* Verification model of the xous-core loader (phase 1) and of the         *)
(* encrypted-swap primitives of the loader and of the xous-swapper         *)
(* service.                                                                *)
(*                                                                         *)
(* SpecSwap models SwapHal (loader/src/platform/precursor/swap.rs and      *)
(* services/xous-swapper/src/platform/precursor/hw.rs) operating on swap   *)
(* RAM that other bus masters may overwrite.                               *)
(*                                                                         *)
(* SpecLoad models phase_1 of the loader (loader/src/phase1.rs): the       *)
(* downward reservations at the top of RAM, the swap argument merger and   *)
(* copy_processes with its IniE/IniF loader and its IniS transcoder.       *)
(***************************************************************************)
EXTENDS Integers, Sequences, FiniteSets, TLC

\* ------------------------------------------------------------------------
\* Program constants
\* ------------------------------------------------------------------------
PAGE_SIZE == 4096

\* size_of::<Tag>() of AES-GCM-SIV: the 16-byte authenticator
TAG_SIZE == 16

\* ------------------------------------------------------------------------
\* Bounds of the model
\* ------------------------------------------------------------------------
\* swap RAM sizes range over 0..MaxRamPages pages (plus an unaligned tail)
MaxRamPages == 3

\* writes to swap RAM made behind SwapHal's back
MaxAttacks == 1

\* a swap RAM size that is not a multiple of the page size has this tail
RamTail == 100

\* process and kernel tags in the argument stream of one boot
MaxTags == 2

\* sections in the argument stream of one boot, over all its tags
MaxSections == 2

\* the same, for processes made of sections that fill or share pages
MaxFitSections == 3

\* ------------------------------------------------------------------------
\* Input domains
\* ------------------------------------------------------------------------
RamSizes == {n * PAGE_SIZE : n \in 0..MaxRamPages} \cup {MaxRamPages * PAGE_SIZE + RamTail}

\* symbolic 4096-byte plaintext pages
Pages == {"PageA", "PageB"}

\* page-aligned offsets into swap RAM handed to SwapHal
Offsets == {0, PAGE_SIZE}

\* virtual addresses handed to decrypt_swap_from: two in the same page, one
\* in the next page
VAddrs == {65536, 65552, 69632}

\* virtual addresses handed to encrypt_swap_to
EncVAddrs == {65536, 69632}

Pids == {2, 3}

SwapCounts == {0, 1}

\* swap.key / spec.key (image builder) and the TRNG-sampled per-boot key
FlashKeys == {"K_flash"}

TrngKeys == {"K_trng"}

\* load_offset of a process tag: where its first section starts in the image
LoadOffsets == {4372}

\* sections of IniE/IniF tags: a start in virtual page 0, one 16 bytes below
\* a page boundary, one on the boundary two pages up; empty, short and longer
\* than a page
ElfSections == {s \in [virt : {16, 69616, 73728}, len : {0, 32, 4112}, w : BOOLEAN, nocopy : BOOLEAN] :
                  s.nocopy => s.w}

\* sections of IniS tags
SwapSections == [virt : {69616, 69648, 77824}, len : {0, 32, 4112}, w : {FALSE}, nocopy : BOOLEAN]

\* sections for the runs over many boot configurations
FewSections == {[virt |-> 69616, len |-> 4112, w |-> TRUE, nocopy |-> FALSE],
                [virt |-> 69648, len |-> 32, w |-> TRUE, nocopy |-> FALSE],
                [virt |-> 77824, len |-> 0, w |-> FALSE, nocopy |-> FALSE]}

\* sections that end on a page boundary, are empty, or start where the
\* previous one ended
FitSections == {[virt |-> 69616, len |-> 4112, w |-> TRUE, nocopy |-> FALSE],
                [virt |-> 73728, len |-> 0, w |-> TRUE, nocopy |-> FALSE],
                [virt |-> 73728, len |-> 32, w |-> TRUE, nocopy |-> FALSE],
                [virt |-> 73760, len |-> 0, w |-> TRUE, nocopy |-> FALSE],
                [virt |-> 73760, len |-> 32, w |-> TRUE, nocopy |-> FALSE],
                [virt |-> 73760, len |-> 32, w |-> FALSE, nocopy |-> FALSE]}

\* the kernel's ProgramDescription
KernelPrograms == {[load_offset |-> 8192, text_size |-> 4100, data_size |-> 16, bss_size |-> 16],
                   [load_offset |-> 8192, text_size |-> 4096, data_size |-> 0, bss_size |-> 0]}

\* a boot image and machine: 32 pages of RAM, no extra regions, two initial
\* processes, a primary stream of 64 bytes, one IniS record in the secondary
\* stream, 8 pages of swap RAM, 4 pages of swap source image
BaseImage == [sram_start |-> 262144 * PAGE_SIZE, sram_size |-> 32 * PAGE_SIZE, regions |-> <<>>,
              init_process_count |-> 2, args_size |-> 64,
              swap_args |-> <<[name |-> "IniS", size |-> 8]>>,
              swap_ram_size |-> 8 * PAGE_SIZE, swap_len |-> 4 * PAGE_SIZE]

\* RAM sizes from too small for the tables to roomy, with and without regions
LoadImages == {[BaseImage EXCEPT !.sram_size = n * PAGE_SIZE, !.regions = r, !.swap_ram_size = m * PAGE_SIZE,
                                 !.swap_args = q] :
                  n \in {3, 6, 9, 11, 32}, r \in {<<>>, <<6144>>}, m \in {3, 8},
                  q \in {<<[name |-> "IniS", size |-> 8]>>,
                         <<[name |-> "Bflg", size |-> 8], [name |-> "IniS", size |-> 8]>>}}

\* primary stream sizes and secondary streams for copy_args
SecondaryRecords == {[name |-> "IniS", size |-> 8], [name |-> "IniS", size |-> 16], [name |-> "Othr", size |-> 8]}

SecondaryStreams == {<<>>} \cup {<<a>> : a \in SecondaryRecords}
                    \cup {<<a, b>> : a \in SecondaryRecords, b \in SecondaryRecords}

ArgImages == {[BaseImage EXCEPT !.args_size = p, !.swap_args = q, !.sram_size = n * PAGE_SIZE] :
                 p \in {28, 64, 4000}, q \in SecondaryStreams, n \in {5, 32}}

VARIABLES
    hal,            \* the SwapHal object: kind, area lengths, ciphers, halted
    dst_data_area,  \* swap RAM ciphertext pages, by page index
    dst_mac_area,   \* swap RAM tag table, by tag index
    swap_buf,       \* loader SwapHal.buf (contents descriptor)
    buf_addr,       \* loader SwapHal.buf_addr
    last,           \* the last SwapHal call: arguments and result
    origin,         \* history: which encrypt call filled each slot
    attacks,        \* number of writes made behind SwapHal's back
    pc,             \* position of the loader inside phase_1 / copy_processes
    halt,           \* why the loader panicked ("none" while it runs)
    image,          \* the boot image and RAM configuration (read-only input)
    cfg,            \* BootConfig: init_size, extra_pages, swap_free_page, ...
    args,           \* the argument buffer written by copy_args
    lp,             \* the locals of copy_processes for the tag being copied
    gh              \* history: reservations, pages, sections, swap writes

swapVars == <<hal, dst_data_area, dst_mac_area, swap_buf, buf_addr, last, origin, attacks>>

loadVars == <<pc, halt, image, cfg, args, lp, gh>>

vars == <<hal, dst_data_area, dst_mac_area, swap_buf, buf_addr, last, origin, attacks,
          pc, halt, image, cfg, args, lp, gh>>

\* ------------------------------------------------------------------------
\* Helpers
\* ------------------------------------------------------------------------
\* x & !(PAGE_SIZE - 1)
PageMask(x) == x - (x % PAGE_SIZE)

\* (x as u32).to_be_bytes()[..3]; usize is 32 bits wide on the target, so the
\* cast keeps every bit
BeTop3(x) == << (x \div 16777216) % 256, (x \div 65536) % 256, (x \div 256) % 256 >>

\* (x: u32).to_be_bytes()
Be4(x) == << (x \div 16777216) % 256, (x \div 65536) % 256, (x \div 256) % 256, x % 256 >>

\* mutant: the pid byte is left out of the nonce
LoaderNonce_NoPid(offset, vaddr, pid) ==
    <<0, 0, 0, 0>> \o <<0, 0>> \o BeTop3(PageMask(offset)) \o BeTop3(PageMask(vaddr))

\* the nonce built by the loader's encrypt_swap_to / decrypt_swap_from
LoaderNonce(offset, vaddr, pid) ==
    <<0, 0, 0, 0>> \o <<0, pid>> \o BeTop3(PageMask(offset)) \o BeTop3(PageMask(vaddr))

\* mutant: the pid is stored in byte 4 of the nonce
SwapperNonce_PidAtByte4(swap_count, offset, vaddr, pid) ==
    Be4(swap_count) \o <<pid, 0>> \o BeTop3(PageMask(offset)) \o BeTop3(PageMask(vaddr))

\* the nonce built by the swapper's encrypt_swap_to / decrypt_swap_from
SwapperNonce(swap_count, offset, vaddr, pid) ==
    Be4(swap_count) \o <<0, pid>> \o BeTop3(PageMask(offset)) \o BeTop3(PageMask(vaddr))

\* Idealised AES-256-GCM-SIV (external crate): deterministic; a ciphertext
\* and its tag are bound to key, nonce and plaintext; anything else fails.
AeadEncrypt(key, nonce, pt) ==
    [data |-> [key |-> key, nonce |-> nonce, pt |-> pt, flipped |-> FALSE],
     tag  |-> [key |-> key, nonce |-> nonce, pt |-> pt, flipped |-> FALSE]]

AeadDecryptOk(key, nonce, data, tag) ==
    /\ data.key = key
    /\ data.nonce = nonce
    /\ ~data.flipped
    /\ tag = [key |-> key, nonce |-> nonce, pt |-> data.pt, flipped |-> FALSE]

\* memory that no encrypt call has written
JunkCell == [key |-> "none", nonce |-> <<>>, pt |-> "junk", flipped |-> FALSE]

NoCall == [op |-> "none", swap_count |-> 0, offset |-> 0, vaddr |-> 0, pid |-> 0,
           ok |-> TRUE, out |-> "none", ram_size |-> 0, before |-> "none"]

NoOrigin == [set |-> FALSE, page |-> "none", swap_count |-> 0, offset |-> 0, vaddr |-> 0,
             pid |-> 0, data_changed |-> FALSE, tag_changed |-> FALSE]

NoHal == [kind |-> "none", data_len |-> 0, mac_len |-> 0, halted |-> FALSE]

\* ------------------------------------------------------------------------
\* SwapHal::new
\* ------------------------------------------------------------------------
\* mutant: the table is sized with 4-byte entries instead of 16-byte tags
LoaderMacSize_WordEntries(ram_size) == (ram_size \div 4096) * 4

LoaderMacSize(ram_size) == (ram_size \div 4096) * TAG_SIZE

LoaderMacSizeToPage(ram_size) == (LoaderMacSize(ram_size) + (PAGE_SIZE - 1)) \div PAGE_SIZE

LoaderRamSizeActual(ram_size) == PageMask(ram_size) - LoaderMacSizeToPage(ram_size)

SwapperMacSize(swap_len) == (swap_len \div 4096) * TAG_SIZE

SwapperMacSizeToPage(swap_len) == PageMask(SwapperMacSize(swap_len) + (PAGE_SIZE - 1))

SwapperRamSizeActual(swap_len) == PageMask(swap_len) - SwapperMacSizeToPage(swap_len)

FreshAreas(data_len, mac_len) ==
    /\ dst_data_area' = [i \in 0..((data_len \div PAGE_SIZE) - 1) |-> JunkCell]
    /\ dst_mac_area' = [i \in 0..((mac_len \div TAG_SIZE) - 1) |-> JunkCell]
    /\ origin' = [i \in 0..((data_len \div PAGE_SIZE) - 1) |-> NoOrigin]

LoaderNew ==
    /\ hal.kind = "none"
    /\ \E ram_size \in RamSizes, key \in FlashKeys, ram_swap_key \in TrngKeys :
        /\ hal' = [kind |-> "loader",
                   data_len |-> LoaderRamSizeActual(ram_size),
                   mac_len |-> LoaderMacSize(ram_size),
                   src_cipher |-> key,
                   dst_cipher |-> ram_swap_key,
                   halted |-> FALSE]
        /\ FreshAreas(LoaderRamSizeActual(ram_size), LoaderMacSize(ram_size))
        /\ last' = [NoCall EXCEPT !.op = "new", !.ram_size = ram_size]
    /\ swap_buf' = [kind |-> "zero"]
    /\ buf_addr' = 0
    /\ UNCHANGED attacks

SwapperNew ==
    /\ hal.kind = "none"
    /\ \E swap_len \in RamSizes, key \in FlashKeys :
        /\ hal' = [kind |-> "swapper",
                   data_len |-> SwapperRamSizeActual(swap_len),
                   mac_len |-> SwapperMacSize(swap_len),
                   cipher |-> key,
                   halted |-> FALSE]
        /\ FreshAreas(SwapperRamSizeActual(swap_len), SwapperMacSize(swap_len))
        /\ last' = [NoCall EXCEPT !.op = "new", !.ram_size = swap_len]
    /\ UNCHANGED <<swap_buf, buf_addr, attacks>>

\* ------------------------------------------------------------------------
\* loader SwapHal::encrypt_swap_to / decrypt_swap_from
\* ------------------------------------------------------------------------
\* the cipher object the loader's encrypt_swap_to calls encrypt_in_place_detached on
LoaderEncryptCipher == hal.src_cipher

\* mutant: decrypt_swap_from uses the other cipher object
LoaderDecryptCipher_Dst == hal.dst_cipher

\* the cipher object the loader's decrypt_swap_from calls decrypt_in_place_detached on
LoaderDecryptCipher == hal.src_cipher

\* SpecSwap follows every history of calls up to its first decrypt_swap_from:
\* that call changes nothing a later encrypt_swap_to or decrypt_swap_from reads
\* (swap RAM and the ciphers are left alone), so longer histories add no case.
Running == ~hal.halted /\ last.op # "decrypt"

\* index of the page / of the tag that offset selects
PageIndex(offset) == offset \div PAGE_SIZE

MacOffset(offset) == (offset \div PAGE_SIZE) * TAG_SIZE

\* (a negative offset stands for a usize that wrapped around)
DataInBounds(offset) == 0 <= offset /\ offset + PAGE_SIZE <= hal.data_len

MacInBounds(offset) == MacOffset(offset) + TAG_SIZE <= hal.mac_len

\* the stores of encrypt_swap_to's Ok arm; an out-of-range slice index panics
StoreSwap(enc, page, swap_count, offset, vaddr, pid) ==
    /\ dst_data_area' = IF DataInBounds(offset)
                        THEN [dst_data_area EXCEPT ![PageIndex(offset)] = enc.data]
                        ELSE dst_data_area
    /\ dst_mac_area' = IF DataInBounds(offset) /\ MacInBounds(offset)
                       THEN [dst_mac_area EXCEPT ![PageIndex(offset)] = enc.tag]
                       ELSE dst_mac_area
    /\ origin' = IF DataInBounds(offset)
                 THEN [origin EXCEPT ![PageIndex(offset)] =
                        [set |-> TRUE, page |-> page, swap_count |-> swap_count,
                         offset |-> offset, vaddr |-> vaddr, pid |-> pid,
                         data_changed |-> FALSE,
                         tag_changed |-> ~MacInBounds(offset)]]
                 ELSE origin
    /\ hal' = [hal EXCEPT !.halted = ~(DataInBounds(offset) /\ MacInBounds(offset))]

LoaderEncryptSwapTo(page, dest_offset, src_vaddr, src_pid) ==
    LET nonce == LoaderNonce(dest_offset, src_vaddr, src_pid)
        enc == AeadEncrypt(LoaderEncryptCipher, nonce, page)
    IN  /\ StoreSwap(enc, page, 0, dest_offset, src_vaddr, src_pid)
        /\ last' = [NoCall EXCEPT !.op = "encrypt", !.offset = dest_offset,
                                  !.vaddr = src_vaddr, !.pid = src_pid,
                                  !.ok = DataInBounds(dest_offset) /\ MacInBounds(dest_offset),
                                  !.out = enc.data]

LoaderEncrypt ==
    /\ hal.kind = "loader"
    /\ Running
    /\ attacks = 0
    /\ \E page \in Pages, dest_offset \in Offsets, src_vaddr \in EncVAddrs, src_pid \in Pids :
        LoaderEncryptSwapTo(page, dest_offset, src_vaddr, src_pid)
    /\ UNCHANGED <<swap_buf, buf_addr, attacks>>

\* decrypt_swap_from of the loader: the result is a view of self.buf; a failed
\* authentication panics
LoaderDecryptSwapFrom(src_offset, dst_vaddr, dst_pid) ==
    LET nonce == LoaderNonce(src_offset, dst_vaddr, dst_pid)
        inb == DataInBounds(src_offset) /\ MacInBounds(src_offset)
        data == dst_data_area[PageIndex(src_offset)]
        tag == dst_mac_area[PageIndex(src_offset)]
        ok == inb /\ AeadDecryptOk(LoaderDecryptCipher, nonce, data, tag)
    IN  /\ swap_buf' = IF ok THEN [kind |-> "swap", pt |-> data.pt]
                       ELSE IF inb THEN [kind |-> "ciphertext"]
                       ELSE swap_buf
        /\ hal' = [hal EXCEPT !.halted = ~ok]
        /\ last' = [NoCall EXCEPT !.op = "decrypt", !.offset = src_offset,
                                  !.vaddr = dst_vaddr, !.pid = dst_pid,
                                  !.ok = ok,
                                  !.out = IF ok THEN data.pt ELSE "panic"]

LoaderDecrypt ==
    /\ hal.kind = "loader"
    /\ Running
    /\ \E src_offset \in Offsets, dst_vaddr \in VAddrs, dst_pid \in Pids :
        LoaderDecryptSwapFrom(src_offset, dst_vaddr, dst_pid)
    /\ UNCHANGED <<dst_data_area, dst_mac_area, origin, buf_addr, attacks>>

\* ------------------------------------------------------------------------
\* swapper SwapHal::encrypt_swap_to / decrypt_swap_from
\* ------------------------------------------------------------------------
SwapperEncryptSwapTo(page, swap_count, dest_offset, src_vaddr, src_pid) ==
    LET nonce == SwapperNonce(swap_count, dest_offset, src_vaddr, src_pid)
        enc == AeadEncrypt(hal.cipher, nonce, page)
    IN  /\ StoreSwap(enc, page, swap_count, dest_offset, src_vaddr, src_pid)
        /\ last' = [NoCall EXCEPT !.op = "encrypt", !.swap_count = swap_count,
                                  !.offset = dest_offset,
                                  !.vaddr = src_vaddr, !.pid = src_pid,
                                  !.ok = DataInBounds(dest_offset) /\ MacInBounds(dest_offset),
                                  !.out = enc.data]

SwapperEncrypt ==
    /\ hal.kind = "swapper"
    /\ Running
    /\ attacks = 0
    /\ \E page \in Pages, swap_count \in SwapCounts, dest_offset \in Offsets,
          src_vaddr \in EncVAddrs, src_pid \in Pids :
        SwapperEncryptSwapTo(page, swap_count, dest_offset, src_vaddr, src_pid)
    /\ UNCHANGED <<swap_buf, buf_addr, attacks>>

\* decrypt_swap_from of the swapper: the caller's buf (holding some page
\* before the call) receives the stored ciphertext and is decrypted in place;
\* Err is returned on a tag mismatch, with the ciphertext left in buf
SwapperDecryptSwapFrom(buf, swap_count, src_offset, dst_vaddr, dst_pid) ==
    LET nonce == SwapperNonce(swap_count, src_offset, dst_vaddr, dst_pid)
        inb == DataInBounds(src_offset) /\ MacInBounds(src_offset)
        data == dst_data_area[PageIndex(src_offset)]
        tag == dst_mac_area[PageIndex(src_offset)]
        ok == inb /\ AeadDecryptOk(hal.cipher, nonce, data, tag)
    IN  /\ hal' = [hal EXCEPT !.halted = ~inb]
        /\ last' = [NoCall EXCEPT !.op = "decrypt", !.swap_count = swap_count,
                                  !.offset = src_offset,
                                  !.vaddr = dst_vaddr, !.pid = dst_pid,
                                  !.ok = ok,
                                  !.before = buf,
                                  !.out = IF ok THEN data.pt
                                          ELSE IF inb THEN "ciphertext" ELSE "panic"]

SwapperDecrypt ==
    /\ hal.kind = "swapper"
    /\ Running
    /\ \E buf \in Pages, swap_count \in SwapCounts, src_offset \in Offsets,
          dst_vaddr \in VAddrs, dst_pid \in Pids :
        SwapperDecryptSwapFrom(buf, swap_count, src_offset, dst_vaddr, dst_pid)
    /\ UNCHANGED <<dst_data_area, dst_mac_area, origin, swap_buf, buf_addr, attacks>>

\* ------------------------------------------------------------------------
\* Swap RAM is ordinary external RAM: its bytes can be rewritten behind
\* SwapHal's back (the threat the tags are there to detect).
\* ------------------------------------------------------------------------
Written(i) == i \in DOMAIN origin /\ origin[i].set /\ i \in DOMAIN dst_mac_area

\* The adversary acts after the honest writes: once swap RAM has been written
\* behind SwapHal's back, the history continues with further such writes and
\* the decrypt_swap_from that meets them.
\* some byte of ciphertext page i is changed
TamperData ==
    /\ attacks < MaxAttacks
    /\ Running
    /\ \E i \in DOMAIN dst_data_area :
        /\ Written(i)
        /\ ~dst_data_area[i].flipped
        /\ dst_data_area' = [dst_data_area EXCEPT ![i].flipped = TRUE]
        /\ origin' = [origin EXCEPT ![i].data_changed = TRUE]
    /\ attacks' = attacks + 1
    /\ last' = NoCall
    /\ UNCHANGED <<hal, dst_mac_area, swap_buf, buf_addr>>

\* some byte of tag i is changed
TamperMac ==
    /\ attacks < MaxAttacks
    /\ Running
    /\ \E i \in DOMAIN dst_data_area :
        /\ Written(i)
        /\ ~dst_mac_area[i].flipped
        /\ dst_mac_area' = [dst_mac_area EXCEPT ![i].flipped = TRUE]
        /\ origin' = [origin EXCEPT ![i].tag_changed = TRUE]
    /\ attacks' = attacks + 1
    /\ last' = NoCall
    /\ UNCHANGED <<hal, dst_data_area, swap_buf, buf_addr>>

\* ciphertext page i and its tag are copied over page j and its tag
SubstituteSlot ==
    /\ attacks < MaxAttacks
    /\ Running
    /\ \E i \in DOMAIN dst_data_area, j \in DOMAIN dst_data_area :
        /\ i # j
        /\ Written(i)
        /\ j \in DOMAIN dst_mac_area
        /\ dst_data_area' = [dst_data_area EXCEPT ![j] = dst_data_area[i]]
        /\ dst_mac_area' = [dst_mac_area EXCEPT ![j] = dst_mac_area[i]]
        /\ origin' = [origin EXCEPT ![j] = origin[i]]
    /\ attacks' = attacks + 1
    /\ last' = NoCall
    /\ UNCHANGED <<hal, swap_buf, buf_addr>>

\* ------------------------------------------------------------------------
\* SpecSwap
\* ------------------------------------------------------------------------
InitSwap ==
    /\ hal = NoHal
    /\ dst_data_area = <<>>
    /\ dst_mac_area = <<>>
    /\ swap_buf = [kind |-> "zero"]
    /\ buf_addr = 0
    /\ last = NoCall
    /\ origin = <<>>
    /\ attacks = 0
    /\ pc = "idle"
    /\ halt = "none"
    /\ image = <<>>
    /\ cfg = <<>>
    /\ args = <<>>
    /\ lp = <<>>
    /\ gh = <<>>

NextSwap ==
    \/ LoaderNew /\ UNCHANGED loadVars
    \/ SwapperNew /\ UNCHANGED loadVars
    \/ LoaderEncrypt /\ UNCHANGED loadVars
    \/ LoaderDecrypt /\ UNCHANGED loadVars
    \/ SwapperEncrypt /\ UNCHANGED loadVars
    \/ SwapperDecrypt /\ UNCHANGED loadVars
    \/ TamperData /\ UNCHANGED loadVars
    \/ TamperMac /\ UNCHANGED loadVars
    \/ SubstituteSlot /\ UNCHANGED loadVars

SpecSwap == InitSwap /\ [][NextSwap]_vars

\* ------------------------------------------------------------------------
\* Loader phase 1: the boot configuration
\* ------------------------------------------------------------------------
\* size_of::<usize>() on the 32-bit target
WORD == 4

\* size_of::<XousPid>(): a process id is one byte
XOUS_PID_SIZE == 1

\* struct InitialProcess with the swap feature: satp, entrypoint, sp, env,
\* swap_root
INITIAL_PROCESS_WORDS == 5

\* the XArg record: 2 header words and 5 payload words
XARG_WORDS == 7

\* the boot stack and clean-suspend pages at the top of RAM
GUARD_MEMORY_BYTES == 4 * PAGE_SIZE

\* size_of::<PageTable>(): one page of entries
PAGE_TABLE_SIZE == PAGE_SIZE

RoundToPage(x) == PageMask(x + PAGE_SIZE - 1)

RoundToWord(x) == (x + WORD - 1) - ((x + WORD - 1) % WORD)

RECURSIVE SumSeq(_)
SumSeq(q) == IF q = <<>> THEN 0 ELSE Head(q) + SumSeq(Tail(q))

SramEnd == image.sram_start + image.sram_size

\* BootConfig::get_top: the bottom of everything reserved so far
GetTop(c) == SramEnd - c.init_size - c.extra_pages * PAGE_SIZE

\* get_top checks the result against the base of RAM
OutOfRam(c) == GetTop(c) < image.sram_start

\* one reservation at the current top, remembered in the history
Reservation(c, kind, pid, n) == [kind |-> kind, pid |-> pid, lo |-> GetTop(c), hi |-> GetTop(c) + n]

\* the step shared by the allocators: cfg becomes c, get_top is taken (and
\* may halt the loader), the n bytes above it are the new reservation and
\* the allocator's work on them leaves cfg as done
ReserveThen(c, done, kind, n, next_pc) ==
    /\ cfg' = IF OutOfRam(c) THEN c ELSE done
    /\ IF OutOfRam(c)
       THEN /\ pc' = "halt"
            /\ halt' = "get_top"
            /\ UNCHANGED gh
       ELSE /\ pc' = next_pc
            /\ gh' = [gh EXCEPT !.resv = Append(@, Reservation(c, kind, 1, n))]
            /\ UNCHANGED halt

Reserve(c, kind, n, next_pc) == ReserveThen(c, c, kind, n, next_pc)

\* phase_1: cfg.init_size += GUARD_MEMORY_BYTES
Phase1Guard ==
    /\ pc = "phase_1"
    /\ cfg' = [cfg EXCEPT !.init_size = @ + GUARD_MEMORY_BYTES]
    /\ gh' = [gh EXCEPT !.resv = Append(@, [kind |-> "guard", pid |-> 1,
                                            lo |-> SramEnd - cfg.init_size - GUARD_MEMORY_BYTES,
                                            hi |-> SramEnd - cfg.init_size])]
    /\ pc' = "allocate_regions"
    /\ UNCHANGED <<halt, image, args, lp, swapVars>>

RegionPages == [i \in DOMAIN image.regions |-> RoundToPage(image.regions[i]) \div PAGE_SIZE]

\* mutant: the page count is not rounded to a multiple of the pointer size
RptPages_Unrounded == image.sram_size \div PAGE_SIZE + SumSeq(RegionPages)

\* rpt_pages after the rounding
RptPages == RoundToWord(image.sram_size \div PAGE_SIZE + SumSeq(RegionPages))

AllocateRegions ==
    /\ pc = "allocate_regions"
    /\ Reserve([cfg EXCEPT !.init_size = @ + RptPages * XOUS_PID_SIZE, !.rpt_pages = RptPages],
               "tracker", RptPages * XOUS_PID_SIZE, "allocate_processes")
    /\ UNCHANGED <<image, args, lp, swapVars>>

ProcessCount == image.init_process_count + 1

TableSize == ProcessCount * INITIAL_PROCESS_WORDS * WORD

\* bzero(processes, processes.add(table_size / size_of::<usize>())): the bytes
\* cleared from the base of the table
ZeroedBytes(table_size) == (table_size \div WORD) * WORD

AllocateProcesses ==
    /\ pc = "allocate_processes"
    /\ LET c == [cfg EXCEPT !.init_size = @ + TableSize]
       IN  ReserveThen(c, [c EXCEPT !.table_zeroed = ZeroedBytes(TableSize)],
                       "processes", TableSize, "copy_args")
    /\ UNCHANGED <<image, args, lp, swapVars>>

\* ------------------------------------------------------------------------
\* Loader phase 1: copy_args (swap feature)
\* ------------------------------------------------------------------------
\* the framing of one record: a tag word and a word holding its size
RECORD_HEADER_WORDS == 2

\* swap_xarg.data[0]: the total byte length of the secondary stream, its XArg
\* record included
RECURSIVE RecordBytes(_)
RecordBytes(recs) ==
    IF recs = <<>> THEN 0
    ELSE RECORD_HEADER_WORDS * WORD + Head(recs).size + RecordBytes(Tail(recs))

SwapXargData0 == XARG_WORDS * WORD + RecordBytes(image.swap_args)

\* cfg.args.size() of the primary stream
PrimarySize == image.args_size

FinalLen == PrimarySize + SwapXargData0 - XARG_WORDS

\* word i of the primary stream in FLASH: the XArg tag, then its header word,
\* then data[0], the stream length
PrimaryWord(i) == IF i = 0 THEN "XArg" ELSE IF i = 2 THEN PrimarySize ELSE <<"pri", i>>

\* memcpy(runtime_arg_buffer, cfg.args.base, cfg.args.size()): count is in
\* bytes and is divided by the size of a word
CopiedPrimary == [i \in 0..((PrimarySize \div WORD) - 1) |-> PrimaryWord(i)]

\* the words of secondary record k, from its tag word on
SecondaryWord(k, i) == <<"sec", k, i>>

\* the loop over the secondary records: an IniS record is stored at word
\* index arg_index of merged_arg_slice, whose length is final_len words
\* mutant: every record of the secondary stream is merged
Merged_Any(a) == TRUE

\* a.name == u32::from_le_bytes(*b"IniS")
Merged(a) == a.name = "IniS"

RECURSIVE MergeFrom(_, _, _)
MergeFrom(k, arg_index, words) ==
    IF k > Len(image.swap_args)
    THEN [arg_index |-> arg_index, words |-> words, ok |-> TRUE]
    ELSE IF Merged(image.swap_args[k])
         THEN LET len == image.swap_args[k].size \div WORD + RECORD_HEADER_WORDS
                  dst == arg_index..(arg_index + len - 1)
              IN  IF arg_index + len > FinalLen
                  THEN [arg_index |-> arg_index, words |-> words, ok |-> FALSE]
                  ELSE MergeFrom(k + 1, arg_index + len,
                                 [i \in DOMAIN words \cup dst |->
                                     IF i \in dst THEN SecondaryWord(k, i - arg_index)
                                     ELSE words[i]])
         ELSE MergeFrom(k + 1, arg_index, words)

\* xarg.data: the five payload words of the XArg record
XargData(words) == <<words[2], words[3], words[4], words[5], words[6]>>

\* CRC-16/X25 of a payload (collision-free in the model)
Crc16(payload) == [crc16 |-> payload]

\* merged_arg_slice[2] = arg_index
PatchedLength(merge) == merge.arg_index

CopyArgs ==
    /\ pc = "copy_args"
    /\ swap_buf = [kind |-> "src", page |-> 0]
    /\ LET c == [cfg EXCEPT !.init_size = @ + FinalLen]
           merge == MergeFrom(1, PrimarySize, CopiedPrimary)
           patched == [merge.words EXCEPT ![2] = PatchedLength(merge)]
       IN  /\ cfg' = c
           /\ IF OutOfRam(c) \/ ~merge.ok
              THEN /\ pc' = "halt"
                   /\ halt' = IF OutOfRam(c) THEN "get_top" ELSE "merged_arg_slice"
                   /\ UNCHANGED <<gh, args>>
              ELSE /\ pc' = "allocate_swap"
                   /\ gh' = [gh EXCEPT !.resv = Append(@, Reservation(c, "args", 1, FinalLen))]
                   /\ args' = [base |-> GetTop(c),
                               final_len |-> FinalLen,
                               arg_index |-> merge.arg_index,
                               words |-> patched,
                               \* bytes 4..6 receive the new CRC
                               bytes_4_6 |-> Crc16(XargData(patched)),
                               \* bytes 16..18 keep what the primary stream held
                               bytes_16_18 |-> Crc16(XargData(CopiedPrimary))]
                   /\ UNCHANGED halt
    /\ UNCHANGED <<image, lp, swapVars>>

\* phase_1 rounds init_size up to a page, then allocate_swap reserves one
\* page table per process
\* every descriptor given the base of the tables
SwapRoot_Shared(swap_pt_base, index) == swap_pt_base

\* proc.swap_root = swap_pt_base as usize + index * size_of::<PageTable>()
SwapRoot(swap_pt_base, index) == swap_pt_base + index * PAGE_TABLE_SIZE

AllocateSwap ==
    /\ pc = "allocate_swap"
    /\ LET c == [cfg EXCEPT !.init_size = RoundToPage(@) + ProcessCount * PAGE_TABLE_SIZE]
       IN  ReserveThen(c, [c EXCEPT !.swap_root = [i \in 1..ProcessCount |-> SwapRoot(GetTop(c), i - 1)]],
                       "swap_pt", ProcessCount * PAGE_TABLE_SIZE, "tags")
    /\ UNCHANGED <<image, args, lp, swapVars>>

\* ------------------------------------------------------------------------
\* Loader phase 1: copy_processes, IniE and IniF
\* ------------------------------------------------------------------------
\* the locals of copy_processes before the first tag (_pid = 1)
\* tag names met in an argument stream
TagCodes == {"IniE", "IniF", "IniS", "XKrn", "Bflg", "MREx"}

\* impl From<u32> for TagType
TagTypeFrom(code) ==
    IF code = "IniE" THEN "IniE"
    ELSE IF code = "IniF" THEN "IniF"
    ELSE IF code = "IniS" THEN "IniS"
    ELSE IF code = "XKrn" THEN "XKrn"
    ELSE "Other"

\* u8::MAX
U8_MAX == 255

NoWorkingPage == [some |-> FALSE, v |-> 0]

LpInit == [pid |-> 1, tag |-> "none", load_offset |-> 0, top |-> 0, src |-> 0, last_vaddr |-> 0,
           perfect_fit |-> FALSE, nocopy |-> FALSE, dst |-> 0, btc |-> 0,
           wpso |-> NoWorkingPage, wbuf |-> <<>>, dirty |-> FALSE, free_at_start |-> 0]

\* the history kept beside the loader: resv is every reservation made at the
\* top of RAM; secs, pages and stray describe the process being copied (its
\* sections, the physical pages acquired for it, its writes outside them);
\* swaps is every page handed to encrypt_swap_to and map_swap; kernel is what
\* the XKrn arm copied and cleared; decrypts is the source pages handed to
\* decrypt_src_page_at for the tag being copied
GhInit == [resv |-> <<>>, secs |-> <<>>, pages |-> <<>>, stray |-> <<>>, swaps |-> <<>>,
           kernel |-> <<>>, decrypts |-> <<>>, ntags |-> 0, nsecs |-> 0]

Min(a, b) == IF a <= b THEN a ELSE b

\* what RAM holds where nothing has cleared or written it
StaleContents == {"zero", "garbage"}

\* the bytes of the boot image in FLASH from base_addr + addr on
FlashBytes(addr) == [kind |-> "flash", addr |-> addr]

\* memcpy into RAM at top + off: the bytes land in the page acquired at that
\* address or, when top is not a page of this process, outside its pages
WriteRam(g, top, off, len, src) ==
    IF \E i \in DOMAIN g.pages : g.pages[i].addr = top
    THEN LET i == CHOOSE i \in DOMAIN g.pages : g.pages[i].addr = top
         IN  [g EXCEPT !.pages[i].writes = Append(@, [off |-> off, len |-> len, src |-> src])]
    ELSE [g EXCEPT !.stray = Append(@, [addr |-> top + off, len |-> len, src |-> src])]

\* a page of the process being copied is acquired at the top of RAM
AcquirePage(g, c, pid, content) ==
    [g EXCEPT !.pages = Append(@, [addr |-> GetTop(c), content |-> content, writes |-> <<>>]),
              !.resv = Append(@, Reservation(c, "page", pid, PAGE_SIZE))]

\* mutant: the page count is not advanced
NextExtraPages_Same(extra_pages) == extra_pages

\* cfg.extra_pages += 1
NextExtraPages(extra_pages) == extra_pages + 1

\* copy_to_ram
CopyToRam(tag, section) == section.w \/ tag = "IniE"

\* mutant: a page is acquired only when the virtual page changes
NeedsPage_NoPerfectFit(last_page_vaddr, virt, last_section_perfect_fit) ==
    PageMask(last_page_vaddr) # PageMask(virt)

\* the condition under which a copied section starts in a newly acquired page
NeedsPage(last_page_vaddr, virt, last_section_perfect_fit) ==
    PageMask(last_page_vaddr) # PageMask(virt) \/ last_section_perfect_fit

\* an IniE or IniF tag is met: _pid += 1, top = null, src_paddr = base_addr +
\* load_offset
TagElf ==
    /\ pc = "tags"
    /\ gh.ntags < MaxTags
    /\ \E tag \in {"IniE", "IniF"}, load_offset \in LoadOffsets :
        lp' = [LpInit EXCEPT !.pid = lp.pid + 1, !.tag = tag, !.load_offset = load_offset,
                            !.src = load_offset]
    /\ gh' = [gh EXCEPT !.ntags = @ + 1, !.secs = <<>>, !.pages = <<>>, !.stray = <<>>]
    /\ pc' = "elf_sections"
    /\ UNCHANGED <<halt, image, cfg, args, swapVars>>

\* what the history keeps of a section: the section, the source address and
\* top it started with, whether it was copied, whether a page was acquired
\* when it started, the pages acquired and the bytes copied for it so far
SectionRecord(s, src, top, copied, fresh) ==
    [virt |-> s.virt, len |-> s.len, w |-> s.w, nocopy |-> s.nocopy,
     src |-> src, top |-> top, copied |-> copied, fresh |-> fresh,
     acquired |-> IF fresh THEN 1 ELSE 0, wrote |-> 0]

\* the head of the loop over the sections of an IniE/IniF tag, up to the
\* while loop; the argument stream holds at most max sections
ElfSectionUpTo(Sections, max) ==
    /\ pc = "elf_sections"
    /\ gh.nsecs < max
    /\ \E s \in Sections :
        IF s.virt < lp.last_vaddr
        THEN /\ pc' = "halt"
             /\ halt' = "not_increasing"
             /\ UNCHANGED <<cfg, lp, gh>>
        ELSE IF CopyToRam(lp.tag, s)
        THEN LET fresh == NeedsPage(lp.last_vaddr, s.virt, lp.perfect_fit)
                 c == IF fresh THEN [cfg EXCEPT !.extra_pages = NextExtraPages(@)] ELSE cfg
                 g == IF fresh THEN AcquirePage(gh, c, lp.pid, "zero") ELSE gh
             IN  /\ cfg' = c
                 /\ IF fresh /\ OutOfRam(c)
                    THEN /\ pc' = "halt"
                         /\ halt' = "get_top"
                         /\ UNCHANGED <<lp, gh>>
                    ELSE /\ lp' = [lp EXCEPT !.top = IF fresh THEN GetTop(c) ELSE @,
                                             !.dst = s.virt,
                                             !.btc = s.len,
                                             !.nocopy = s.nocopy,
                                             !.last_vaddr = IF s.len = 0 THEN s.virt ELSE @]
                         /\ gh' = [g EXCEPT !.nsecs = @ + 1,
                                            !.secs = Append(@, SectionRecord(s, lp.src, IF fresh THEN GetTop(c) ELSE lp.top,
                                                                            TRUE, fresh))]
                         /\ pc' = IF s.len = 0 THEN "elf_sections" ELSE "elf_copy"
                         /\ UNCHANGED halt
        ELSE /\ IF OutOfRam(cfg)
                THEN /\ pc' = "halt"
                     /\ halt' = "get_top"
                     /\ UNCHANGED <<lp, gh>>
                ELSE /\ lp' = [lp EXCEPT !.top = GetTop(cfg), !.src = @ + s.len]
                     /\ gh' = [gh EXCEPT !.nsecs = @ + 1,
                                         !.secs = Append(@, SectionRecord(s, lp.src, GetTop(cfg), FALSE, FALSE))]
                     /\ pc' = "elf_sections"
                     /\ UNCHANGED halt
             /\ UNCHANGED cfg
    /\ UNCHANGED <<image, args, swapVars>>

ElfSection(Sections) == ElfSectionUpTo(Sections, MaxSections)

\* a page acquired inside the while loop is cleared only if the rest of the
\* section will not fill it
ZeroedWhenAcquired(bytes_to_copy) == bytes_to_copy < PAGE_SIZE

\* one iteration of the while loop of an IniE/IniF section
ElfCopy ==
    /\ pc = "elf_copy"
    /\ LET bytes_remaining_in_vpage == PAGE_SIZE - (lp.dst % PAGE_SIZE)
           copyable_bytes == Min(bytes_remaining_in_vpage, lp.btc)
           k == Len(gh.secs)
           g1 == IF lp.nocopy THEN gh
                 ELSE [WriteRam(gh, lp.top, lp.dst % PAGE_SIZE, copyable_bytes, FlashBytes(lp.src))
                          EXCEPT !.secs[k].wrote = @ + copyable_bytes]
           src == IF lp.nocopy THEN lp.src ELSE lp.src + copyable_bytes
           btc == lp.btc - copyable_bytes
           dst == lp.dst + copyable_bytes
           more == copyable_bytes = bytes_remaining_in_vpage /\ btc > 0
           c == IF more THEN [cfg EXCEPT !.extra_pages = NextExtraPages(@)] ELSE cfg
       IN  /\ cfg' = c
           /\ IF more /\ OutOfRam(c)
              THEN /\ pc' = "halt"
                   /\ halt' = "get_top"
                   /\ UNCHANGED <<lp, gh>>
              ELSE /\ \E content \in IF more /\ ~ZeroedWhenAcquired(btc) THEN StaleContents ELSE {"zero"} :
                        gh' = IF more
                              THEN [AcquirePage(g1, c, lp.pid, content) EXCEPT !.secs[k].acquired = @ + 1]
                              ELSE g1
                   /\ lp' = [lp EXCEPT !.perfect_fit = (bytes_remaining_in_vpage = lp.btc),
                                       !.src = src,
                                       !.btc = btc,
                                       !.dst = dst,
                                       !.top = IF more THEN GetTop(c) ELSE @,
                                       !.last_vaddr = IF btc = 0 THEN dst ELSE @]
                   /\ pc' = IF btc = 0 THEN "elf_sections" ELSE "elf_copy"
                   /\ UNCHANGED halt
    /\ UNCHANGED <<image, args, swapVars>>

\* the sections of the tag are exhausted
ElfDone ==
    /\ pc = "elf_sections"
    /\ pc' = "tags"
    /\ UNCHANGED <<halt, image, cfg, args, lp, gh, swapVars>>

\* ------------------------------------------------------------------------
\* Loader phase 1: copy_processes, IniS (the transcoder)
\* ------------------------------------------------------------------------
\* an IniS tag is met: _pid += 1, no working page, working_buf all zero,
\* src_swap_img_addr = load_offset
\* _pid is a u8: _pid += 1 at 255 overflows, which a build with overflow
\* checks turns into a panic and one without into 0
TagIniSUpTo(max) ==
    /\ pc = "tags"
    /\ gh.ntags < max
    /\ \E load_offset \in LoadOffsets, overflow_checks \in IF lp.pid = U8_MAX THEN BOOLEAN ELSE {FALSE} :
        IF overflow_checks
        THEN /\ pc' = "halt"
             /\ halt' = "overflow"
             /\ UNCHANGED <<lp, gh>>
        ELSE /\ lp' = [LpInit EXCEPT !.pid = (lp.pid + 1) % (U8_MAX + 1), !.tag = "IniS",
                                     !.load_offset = load_offset,
                                     !.src = load_offset, !.free_at_start = cfg.swap_free_page]
             /\ gh' = [gh EXCEPT !.ntags = @ + 1, !.secs = <<>>, !.pages = <<>>, !.stray = <<>>,
                                 !.decrypts = <<>>]
             /\ pc' = "swap_sections"
             /\ UNCHANGED halt
    /\ UNCHANGED <<image, cfg, args, swapVars>>

TagIniS == TagIniSUpTo(MaxTags)

\* swap.encrypt_swap_to(&mut working_buf, offset, vaddr, _pid) followed by
\* cfg.map_swap(offset, vaddr, _pid)
SwapWrite(g, page, offset, vaddr, pid) ==
    [g EXCEPT !.swaps = Append(@, [pid |-> pid, offset |-> offset, vaddr |-> vaddr, page |-> page])]

EncryptOk(offset) == DataInBounds(offset) /\ MacInBounds(offset)

\* the head of the loop over the sections of an IniS tag, up to the while loop
SwapSectionUpTo(Sections, max) ==
    /\ pc = "swap_sections"
    /\ gh.nsecs < max
    /\ \E s \in Sections :
        LET dst_page_vaddr == s.virt
            flush == lp.wpso.some /\ PageMask(lp.last_vaddr) # PageMask(dst_page_vaddr)
            take == flush \/ ~lp.wpso.some
            offset == lp.wpso.v * PAGE_SIZE
            g == IF flush THEN SwapWrite(gh, lp.wbuf, offset, PageMask(dst_page_vaddr), lp.pid) ELSE gh
        IN  /\ IF flush
               THEN LoaderEncryptSwapTo(lp.wbuf, offset, PageMask(dst_page_vaddr), lp.pid)
               ELSE UNCHANGED <<hal, dst_data_area, dst_mac_area, origin, last>>
            /\ IF flush /\ ~EncryptOk(offset)
               THEN /\ pc' = "halt"
                    /\ halt' = "encrypt_swap_to"
                    /\ UNCHANGED <<cfg, lp, gh>>
               ELSE /\ cfg' = [cfg EXCEPT !.swap_free_page = IF take THEN @ + 1 ELSE @]
                    /\ lp' = [lp EXCEPT !.wpso = IF take THEN [some |-> TRUE, v |-> cfg.swap_free_page] ELSE @,
                                        !.wbuf = IF flush THEN <<>> ELSE @,
                                        !.dirty = IF flush THEN FALSE ELSE @,
                                        !.dst = dst_page_vaddr,
                                        !.btc = s.len,
                                        !.nocopy = s.nocopy,
                                        !.last_vaddr = IF s.len = 0 THEN dst_page_vaddr ELSE @]
                    /\ gh' = [g EXCEPT !.nsecs = @ + 1,
                                       !.secs = Append(@, SectionRecord(s, lp.src, 0, TRUE, take))]
                    /\ pc' = IF s.len = 0 THEN "swap_sections" ELSE "swap_copy"
                    /\ UNCHANGED halt
    /\ UNCHANGED <<image, args, swap_buf, buf_addr, attacks>>

SwapSection(Sections) == SwapSectionUpTo(Sections, MaxSections)

\* mutant: the offset in the page is taken for the bytes left in it
RemainingInPage_Offset(addr) == addr % PAGE_SIZE

\* mutant: the bytes left in the page are counted from the page start
RemainingInPage_FromStart(addr) == PAGE_SIZE - (PageMask(addr) % PAGE_SIZE)

\* remaining_in_page
RemainingInPage(addr) == PAGE_SIZE - (addr % PAGE_SIZE)

\* what swap.buf_as_ref()[off..] holds: bytes of the swap source image when
\* the buffer holds a decrypted source page
BufBytes(buf, off) ==
    IF buf.kind = "src" THEN [kind |-> "img", addr |-> buf.page + off]
    ELSE [kind |-> buf.kind, addr |-> off]

\* mutant: the buffer is taken to hold the right page whatever its address
NeedsDecrypt_Never(decrypt_page_addr, src_swap_img_page) == FALSE

\* swap.decrypt_page_addr() != src_swap_img_page
NeedsDecrypt(decrypt_page_addr, src_swap_img_page) == decrypt_page_addr # src_swap_img_page

\* one iteration of the while loop of an IniS section
SwapCopy ==
    /\ pc = "swap_copy"
    /\ LET src_swap_img_page == PageMask(lp.src)
           src_swap_img_offset == lp.src % PAGE_SIZE
           decrypt == NeedsDecrypt(buf_addr, src_swap_img_page)
           decrypt_ok == src_swap_img_page + PAGE_SIZE <= image.swap_len
           buf == IF decrypt THEN [kind |-> "src", page |-> src_swap_img_page] ELSE swap_buf
           decrypt_avail == RemainingInPage(lp.src)
           dst_page_avail == RemainingInPage(lp.dst)
           dst_page_offset == lp.dst % PAGE_SIZE
           copyable == IF decrypt_avail >= dst_page_avail
                       THEN Min(dst_page_avail, lp.btc)
                       ELSE Min(decrypt_avail, lp.btc)
           wbuf == IF lp.nocopy THEN lp.wbuf
                   ELSE Append(lp.wbuf, [off |-> dst_page_offset, len |-> copyable,
                                         src |-> BufBytes(buf, src_swap_img_offset)])
           btc == lp.btc - copyable
           dst == lp.dst + copyable
           full == dst % PAGE_SIZE = 0
           offset == lp.wpso.v * PAGE_SIZE
           k == Len(gh.secs)
           g1 == [gh EXCEPT !.secs[k].wrote = IF lp.nocopy THEN @ ELSE @ + copyable,
                            !.secs[k].acquired = IF full THEN @ + 1 ELSE @,
                            !.decrypts = IF decrypt THEN Append(@, src_swap_img_page) ELSE @]
       IN  IF decrypt /\ ~decrypt_ok
           THEN /\ pc' = "halt"
                /\ halt' = "decrypt_src_page_at"
                /\ buf_addr' = src_swap_img_page
                /\ UNCHANGED <<cfg, lp, gh, swap_buf, hal, dst_data_area, dst_mac_area, origin, last>>
           ELSE /\ buf_addr' = IF decrypt THEN src_swap_img_page ELSE buf_addr
                /\ swap_buf' = buf
                /\ IF full
                   THEN LoaderEncryptSwapTo(wbuf, offset, PageMask(dst), lp.pid)
                   ELSE UNCHANGED <<hal, dst_data_area, dst_mac_area, origin, last>>
                /\ IF full /\ ~EncryptOk(offset)
                   THEN /\ pc' = "halt"
                        /\ halt' = "encrypt_swap_to"
                        /\ UNCHANGED <<cfg, lp, gh>>
                   ELSE /\ cfg' = [cfg EXCEPT !.swap_free_page = IF full THEN @ + 1 ELSE @]
                        /\ lp' = [lp EXCEPT !.wpso = IF full THEN [some |-> TRUE, v |-> cfg.swap_free_page] ELSE @,
                                            !.wbuf = IF full THEN <<>> ELSE wbuf,
                                            !.dirty = ~full,
                                            !.src = @ + copyable,
                                            !.btc = btc,
                                            !.dst = dst,
                                            !.last_vaddr = IF btc = 0 THEN dst ELSE @]
                        /\ gh' = IF full THEN SwapWrite(g1, wbuf, offset, PageMask(dst), lp.pid) ELSE g1
                        /\ pc' = IF btc = 0 THEN "swap_sections" ELSE "swap_copy"
                        /\ UNCHANGED halt
    /\ UNCHANGED <<image, args, attacks>>

\* the sections of the tag are exhausted: the buffer is flushed if dirty,
\* otherwise the page taken for it is given back.  cfg.swap_free_page - 1
\* overflows when the counter is 0: a build with overflow checks panics, one
\* without wraps to the largest usize, which the model writes as -1
\* mutant: the working buffer is never flushed after the last section
FinalFlush_Never(working_buf_dirty) == FALSE

\* if working_buf_dirty
FinalFlush(working_buf_dirty) == working_buf_dirty

SwapDone ==
    /\ pc = "swap_sections"
    /\ LET offset == lp.wpso.v * PAGE_SIZE
       IN  IF FinalFlush(lp.dirty)
           THEN /\ LoaderEncryptSwapTo(lp.wbuf, offset, PageMask(lp.last_vaddr), lp.pid)
                /\ IF EncryptOk(offset)
                   THEN /\ pc' = "tags"
                        /\ lp' = [lp EXCEPT !.wpso = NoWorkingPage]
                        /\ gh' = SwapWrite(gh, lp.wbuf, offset, PageMask(lp.last_vaddr), lp.pid)
                        /\ UNCHANGED halt
                   ELSE /\ pc' = "halt"
                        /\ halt' = "encrypt_swap_to"
                        /\ UNCHANGED <<lp, gh>>
                /\ UNCHANGED cfg
           ELSE /\ \E overflow_checks \in IF cfg.swap_free_page = 0 THEN BOOLEAN ELSE {FALSE} :
                    IF overflow_checks
                    THEN /\ pc' = "halt"
                         /\ halt' = "overflow"
                         /\ UNCHANGED cfg
                    ELSE /\ pc' = "tags"
                         /\ cfg' = [cfg EXCEPT !.swap_free_page = @ - 1]
                         /\ UNCHANGED halt
                /\ UNCHANGED <<lp, gh, hal, dst_data_area, dst_mac_area, origin, last>>
    /\ UNCHANGED <<image, args, swap_buf, buf_addr, attacks>>

\* ------------------------------------------------------------------------
\* Loader phase 1: XKrn, other tags, the end of phase_1
\* ------------------------------------------------------------------------
\* one block of the kernel: memcpy of size + 1 bytes in whole words, then
\* bzero from the word at size / 4 to the end of the rounded block
KernelBlock(c, src, size, rounded) ==
    [lo |-> GetTop(c), hi |-> GetTop(c) + rounded,
     src |-> src,
     copied |-> ((size + 1) \div WORD) * WORD,
     zero_lo |-> GetTop(c) + (size \div WORD) * WORD,
     zero_hi |-> GetTop(c) + rounded]

\* the XKrn arm: the text block, then the data + bss block below it
TagXKrn ==
    /\ pc = "tags"
    /\ gh.ntags < MaxTags
    /\ \E prog \in KernelPrograms :
        LET text_rounded == RoundToPage(prog.text_size)
            c1 == [cfg EXCEPT !.extra_pages = @ + text_rounded \div PAGE_SIZE]
            data_rounded == RoundToPage(prog.data_size + prog.bss_size)
            c2 == [c1 EXCEPT !.extra_pages = @ + data_rounded \div PAGE_SIZE]
            text_src == (prog.load_offset \div WORD) * WORD
            data_src == (((prog.load_offset + prog.text_size + 4) \div WORD) - 1) * WORD
        IN  IF OutOfRam(c1) \/ OutOfRam(c2)
            THEN /\ pc' = "halt"
                 /\ halt' = "get_top"
                 /\ cfg' = IF OutOfRam(c1) THEN c1 ELSE c2
                 /\ UNCHANGED <<lp, gh>>
            ELSE /\ cfg' = c2
                 /\ lp' = [lp EXCEPT !.tag = "XKrn"]
                 /\ gh' = [gh EXCEPT !.ntags = @ + 1,
                                     !.resv = @ \o <<Reservation(c1, "kernel_text", 1, text_rounded),
                                                     Reservation(c2, "kernel_data", 1, data_rounded)>>,
                                     !.kernel = @ \o <<KernelBlock(c1, text_src, prog.text_size, text_rounded),
                                                       KernelBlock(c2, data_src, prog.data_size, data_rounded)>>]
                 /\ pc' = "tags"
                 /\ UNCHANGED halt
    /\ UNCHANGED <<image, args, swapVars>>

\* any other tag is passed over
TagOther ==
    /\ pc = "tags"
    /\ gh.ntags < MaxTags
    /\ \E code \in TagCodes :
        /\ TagTypeFrom(code) = "Other"
        /\ lp' = [lp EXCEPT !.tag = TagTypeFrom(code)]
    /\ gh' = [gh EXCEPT !.ntags = @ + 1]
    /\ UNCHANGED <<pc, halt, image, cfg, args, swapVars>>

\* the argument stream is exhausted; phase_1 marks the pages of init_size,
\* from index 4 on, as owned by the kernel
MarkedPages(c) == {image.sram_size \div PAGE_SIZE - i : i \in 4..((c.init_size \div PAGE_SIZE) - 1)}

MarkPages ==
    /\ pc = "tags"
    /\ cfg' = [cfg EXCEPT !.marked = MarkedPages(cfg)]
    /\ pc' = "done"
    /\ UNCHANGED <<halt, image, args, lp, gh, swapVars>>

\* ------------------------------------------------------------------------
\* Specifications of the loader
\* ------------------------------------------------------------------------
CfgInit == [init_size |-> 0, extra_pages |-> 0, swap_free_page |-> 0, rpt_pages |-> 0, marked |-> {},
            table_zeroed |-> 0, swap_root |-> <<>>]

NoArgs == [base |-> 0, final_len |-> 0, arg_index |-> 0, words |-> <<>>,
           bytes_4_6 |-> "none", bytes_16_18 |-> "none"]

\* phase_1 is entered with the SwapHal built by SwapHal::new and the first
\* page of the swap source image, the secondary argument stream, decrypted
\* into its buffer
InitLoad(Images) ==
    /\ image \in Images
    /\ hal = [kind |-> "loader",
              data_len |-> LoaderRamSizeActual(image.swap_ram_size),
              mac_len |-> LoaderMacSize(image.swap_ram_size),
              src_cipher |-> "K_flash", dst_cipher |-> "K_trng", halted |-> FALSE]
    /\ dst_data_area = [i \in 0..((hal.data_len \div PAGE_SIZE) - 1) |-> JunkCell]
    /\ dst_mac_area = [i \in 0..((hal.mac_len \div TAG_SIZE) - 1) |-> JunkCell]
    /\ origin = [i \in 0..((hal.data_len \div PAGE_SIZE) - 1) |-> NoOrigin]
    /\ swap_buf = [kind |-> "src", page |-> 0]
    /\ buf_addr = 0
    /\ last = NoCall
    /\ attacks = 0
    /\ pc = "phase_1"
    /\ halt = "none"
    /\ cfg = CfgInit
    /\ args = NoArgs
    /\ lp = LpInit
    /\ gh = GhInit

\* IniE, IniF and XKrn images
NextElf ==
    \/ Phase1Guard
    \/ AllocateRegions
    \/ AllocateProcesses
    \/ CopyArgs
    \/ AllocateSwap
    \/ TagElf
    \/ ElfSection(ElfSections)
    \/ ElfCopy
    \/ ElfDone
    \/ TagXKrn
    \/ TagOther
    \/ MarkPages

SpecElf == InitLoad({BaseImage}) /\ [][NextElf]_vars

\* IniE and IniF images whose sections fill or share pages
NextFit ==
    \/ Phase1Guard
    \/ AllocateRegions
    \/ AllocateProcesses
    \/ CopyArgs
    \/ AllocateSwap
    \/ TagElf
    \/ ElfSectionUpTo(FitSections, MaxFitSections)
    \/ ElfCopy
    \/ ElfDone
    \/ MarkPages

SpecFit == InitLoad({BaseImage}) /\ [][NextFit]_vars

\* IniS images
NextTranscode ==
    \/ Phase1Guard
    \/ AllocateRegions
    \/ AllocateProcesses
    \/ CopyArgs
    \/ AllocateSwap
    \/ TagIniS
    \/ SwapSection(SwapSections)
    \/ SwapCopy
    \/ SwapDone
    \/ TagOther
    \/ MarkPages

SpecTranscode == InitLoad({BaseImage}) /\ [][NextTranscode]_vars

\* every kind of tag, over RAM sizes and region lists
NextLoad ==
    \/ Phase1Guard
    \/ AllocateRegions
    \/ AllocateProcesses
    \/ CopyArgs
    \/ AllocateSwap
    \/ TagElf
    \/ ElfSection(FewSections)
    \/ ElfCopy
    \/ ElfDone
    \/ TagIniS
    \/ SwapSection(FewSections)
    \/ SwapCopy
    \/ SwapDone
    \/ TagXKrn
    \/ TagOther
    \/ MarkPages

SpecLoad == InitLoad(LoadImages) /\ [][NextLoad]_vars

\* both copy loops on one image; the loader runs on its own, so a loop
\* iteration that can run does run
NextCopy ==
    \/ Phase1Guard
    \/ AllocateRegions
    \/ AllocateProcesses
    \/ CopyArgs
    \/ AllocateSwap
    \/ TagElf
    \/ ElfSection(FewSections)
    \/ ElfCopy
    \/ ElfDone
    \/ TagIniS
    \/ SwapSection(FewSections)
    \/ SwapCopy
    \/ SwapDone
    \/ MarkPages

SpecCopy == InitLoad({BaseImage}) /\ [][NextCopy]_vars /\ WF_vars(ElfCopy) /\ WF_vars(SwapCopy)

\* copy_args over primary and secondary argument streams
NextArgs ==
    \/ Phase1Guard
    \/ AllocateRegions
    \/ AllocateProcesses
    \/ CopyArgs
    \/ AllocateSwap

SpecArgs == InitLoad(ArgImages) /\ [][NextArgs]_vars

\* ------------------------------------------------------------------------
\* Claims about SwapHal (checked under SpecSwap)
\* ------------------------------------------------------------------------
\* the slot the last call addressed holds a page that some encrypt_swap_to stored
LastSlotWritten ==
    /\ last.op = "decrypt"
    /\ PageIndex(last.offset) \in DOMAIN origin
    /\ origin[PageIndex(last.offset)].set

LastOrigin == origin[PageIndex(last.offset)]

\* the last call is decrypt_swap_from with the arguments of the encrypt_swap_to
\* that filled the slot, and nothing wrote the slot or its tag in between
C1_Case ==
    /\ LastSlotWritten
    /\ ~LastOrigin.data_changed
    /\ ~LastOrigin.tag_changed
    /\ LastOrigin.offset = last.offset
    /\ LastOrigin.vaddr = last.vaddr
    /\ LastOrigin.pid = last.pid
    /\ LastOrigin.swap_count = last.swap_count

\* C1: swap round trip. A decrypt_swap_from(off, va, pid) that follows
\* encrypt_swap_to(P, off, va, pid) (same swap_count in the swapper), with no
\* write to the slot or its tag in between, succeeds and yields exactly P.
C1_SwapRoundTrip ==
    C1_Case =>
        /\ last.ok
        /\ last.out = LastOrigin.page
        /\ hal.kind = "loader" => swap_buf = [kind |-> "swap", pt |-> LastOrigin.page]

\* a round trip through the second slot while the first holds another page
C1_Witness ==
    /\ C1_Case
    /\ last.ok
    /\ last.offset = PAGE_SIZE
    /\ origin[0].set
    /\ origin[0].page # LastOrigin.page

\* C2 as stated: decrypt_swap_from fails whenever off, va or pid differs from
\* the value given to encrypt_swap_to, or the ciphertext or the tag changed.
C2_SubstitutionDetected ==
    ( /\ LastSlotWritten
      /\ \/ LastOrigin.offset # last.offset
         \/ LastOrigin.vaddr # last.vaddr
         \/ LastOrigin.pid # last.pid
         \/ LastOrigin.data_changed
         \/ LastOrigin.tag_changed )
    => ~last.ok

C2_Case ==
    /\ LastSlotWritten
    /\ \/ LastOrigin.offset # last.offset
       \/ PageMask(LastOrigin.vaddr) # PageMask(last.vaddr)
       \/ LastOrigin.pid # last.pid
       \/ LastOrigin.data_changed
       \/ LastOrigin.tag_changed

\* C2 (amended): decrypt_swap_from fails whenever off or pid differs from the
\* value given to encrypt_swap_to, or va lies in a different virtual page, or
\* the ciphertext or the tag changed (the nonce holds the virtual page only).
C2_SubstitutionDetectedPerPage == C2_Case => ~last.ok

\* a page moved to another slot, then read there with the original va and pid
C2_Witness ==
    /\ LastSlotWritten
    /\ LastOrigin.offset # last.offset
    /\ LastOrigin.vaddr = last.vaddr
    /\ LastOrigin.pid = last.pid
    /\ ~LastOrigin.data_changed
    /\ ~LastOrigin.tag_changed
    /\ ~last.ok

\* C3: every page the loader writes to swap RAM is encrypted under the
\* TRNG-sampled destination key, never under the FLASH source key.
C3_DestinationKey ==
    hal.kind = "loader" =>
        \A i \in DOMAIN dst_data_area :
            origin[i].set =>
                /\ dst_data_area[i].key = hal.dst_cipher
                /\ dst_data_area[i].key # hal.src_cipher

\* C10 as stated: the MAC table has exactly one tag slot per whole page of
\* the ciphertext data area.
C10_MacCoversExactly ==
    hal.kind # "none" => hal.mac_len \div TAG_SIZE = hal.data_len \div PAGE_SIZE

\* C10 (amended): the MAC table has at least one tag slot per whole page of
\* the ciphertext data area (it is sized for the whole swap RAM).
C10_MacCovers ==
    hal.kind # "none" => hal.mac_len \div TAG_SIZE >= hal.data_len \div PAGE_SIZE

\* a SwapHal with usable pages and more tag slots than pages
C10_Witness ==
    /\ hal.kind = "loader"
    /\ last.op = "new"
    /\ hal.data_len \div PAGE_SIZE >= 1
    /\ hal.mac_len \div TAG_SIZE > hal.data_len \div PAGE_SIZE

\* ------------------------------------------------------------------------
\* Claims about copy_processes (checked under SpecTranscode and SpecElf)
\* ------------------------------------------------------------------------
ZeroByte == [kind |-> "zero", addr |-> 0]

MaxOf(S) == CHOOSE x \in S : \A y \in S : y <= x

\* the byte at offset off of a page that started as fill and then received
\* writes, the later write winning
ByteAt(writes, fill, off) ==
    LET covering == {i \in DOMAIN writes : writes[i].off <= off /\ off < writes[i].off + writes[i].len}
    IN  IF covering = {} THEN [kind |-> fill, addr |-> 0]
        ELSE LET w == writes[MaxOf(covering)]
             IN  [kind |-> w.src.kind, addr |-> w.src.addr + (off - w.off)]

\* the sections of the tag start at or after the end of their predecessor
AscendingDisjoint(secs) ==
    \A k \in 1..(Len(secs) - 1) : secs[k + 1].virt >= secs[k].virt + secs[k].len

\* where the image holds the bytes of section k: the sections are packed end
\* to end from load_offset on
SectionSource(secs, k) == lp.load_offset + SumSeq([j \in 1..(k - 1) |-> secs[j].len])

Covers(sec, v) == sec.virt <= v /\ v < sec.virt + sec.len

\* the byte that virtual address v of the process must hold
ExpectedByte(secs, kind, v) ==
    IF \E k \in DOMAIN secs : Covers(secs[k], v)
    THEN LET k == CHOOSE k \in DOMAIN secs : Covers(secs[k], v)
         IN  IF secs[k].nocopy THEN ZeroByte
             ELSE [kind |-> kind, addr |-> SectionSource(secs, k) + (v - secs[k].virt)]
    ELSE ZeroByte

\* the offsets of a page where its contents or the expected contents can
\* change: it is enough to compare the two there
Breakpoints(writes, secs, vpage) ==
    ({0} \cup {writes[i].off : i \in DOMAIN writes}
         \cup {writes[i].off + writes[i].len : i \in DOMAIN writes}
         \cup {secs[k].virt - vpage : k \in DOMAIN secs}
         \cup {secs[k].virt + secs[k].len - vpage : k \in DOMAIN secs})
    \cap (0..(PAGE_SIZE - 1))

\* the page is the image of virtual page vpage
IsImageOf(writes, secs, kind, vpage) ==
    \A off \in Breakpoints(writes, secs, vpage) :
        ByteAt(writes, "zero", off) = ExpectedByte(secs, kind, vpage + off)

\* the virtual pages the sections reach, and the one after each
CandidatePages(secs) ==
    UNION {{PageMask(secs[k].virt) + n * PAGE_SIZE : n \in 0..((secs[k].len \div PAGE_SIZE) + 2)} :
              k \in DOMAIN secs}

IsOfPid(e) == e.pid = lp.pid

\* the pages written to swap for the process being copied
TagSwaps == SelectSeq(gh.swaps, IsOfPid)

ExampleSections == <<[virt |-> 69616, len |-> 32], [virt |-> 69648, len |-> 32]>>

IsExample(secs) ==
    /\ Len(secs) = 2
    /\ \A k \in 1..2 : secs[k].virt = ExampleSections[k].virt /\ secs[k].len = ExampleSections[k].len

C4_Case == pc = "tags" /\ lp.tag = "IniS" /\ AscendingDisjoint(gh.secs)

\* C4: after an IniS process whose sections ascend without overlap has been
\* transcoded, every page written to swap for it is the image of one virtual
\* page: it holds, at each in-page offset, the source byte of the section
\* covering that address (zero for NOCOPY) and zero where no section covers;
\* the sections virt=0x10FF0 len=0x20 and virt=0x11010 len=0x20 give exactly
\* two pages, the images of 0x10000 and 0x11000
C4_SwapPageContents ==
    C4_Case =>
        /\ \A i \in DOMAIN TagSwaps :
              \E vpage \in CandidatePages(gh.secs) : IsImageOf(TagSwaps[i].page, gh.secs, "img", vpage)
        /\ IsExample(gh.secs) =>
              /\ Len(TagSwaps) = 2
              /\ IsImageOf(TagSwaps[1].page, gh.secs, "img", 65536)
              /\ IsImageOf(TagSwaps[2].page, gh.secs, "img", 69632)

C4_Witness ==
    /\ C4_Case
    /\ IsExample(gh.secs)
    /\ ~gh.secs[1].nocopy
    /\ ~gh.secs[2].nocopy
    /\ Len(TagSwaps) = 2
    /\ ByteAt(TagSwaps[2].page, "zero", 16) = [kind |-> "img", addr |-> lp.load_offset + 32]

\* the writes into a page leave none of its bytes out
FullyWritten(writes) ==
    \A off \in {0} \cup ({writes[i].off + writes[i].len : i \in DOMAIN writes} \cap (0..(PAGE_SIZE - 1))) :
        \E i \in DOMAIN writes : writes[i].off <= off /\ off < writes[i].off + writes[i].len

\* C5: after an IniE or IniF process has been copied, every byte of every
\* physical page acquired for it that no section data was copied to is zero
\* (NOCOPY sections spanning pages included)
C5_ZeroFill ==
    (pc = "tags" /\ lp.tag \in {"IniE", "IniF"}) =>
        \A i \in DOMAIN gh.pages : gh.pages[i].content = "zero" \/ FullyWritten(gh.pages[i].writes)

\* C6: the sections the loader has accepted for an IniE, IniF or IniS process
\* have non-decreasing virtual addresses
C6_AddressMonotonic ==
    lp.tag \in {"IniE", "IniF", "IniS"} =>
        \A k \in 1..(Len(gh.secs) - 1) : gh.secs[k + 1].virt >= gh.secs[k].virt

\* the section is one that must be in RAM
Wanted(sec) == sec.w \/ lp.tag = "IniE"

\* where the copied data before section k ended (0 when there is none), and
\* whether it ended exactly at the end of a page
CopiedBefore(secs, k) == {j \in 1..(k - 1) : Wanted(secs[j])}

PreviousEnd(secs, k) ==
    IF CopiedBefore(secs, k) = {} THEN 0
    ELSE secs[MaxOf(CopiedBefore(secs, k))].virt + secs[MaxOf(CopiedBefore(secs, k))].len

FilledBefore(secs, k) == {j \in CopiedBefore(secs, k) : secs[j].len > 0}

EndedOnBoundary(secs, k) ==
    /\ FilledBefore(secs, k) # {}
    /\ (secs[MaxOf(FilledBefore(secs, k))].virt + secs[MaxOf(FilledBefore(secs, k))].len) % PAGE_SIZE = 0

StartsNewPage(secs, k) ==
    PageMask(PreviousEnd(secs, k)) # PageMask(secs[k].virt) \/ EndedOnBoundary(secs, k)

ZeroedPageAt(addr) == \E i \in DOMAIN gh.pages : gh.pages[i].addr = addr /\ gh.pages[i].content = "zero"

SectionFinished(k) == k < Len(gh.secs) \/ pc \in {"elf_sections", "tags", "done"}

\* C7 as stated: a section is copied exactly when it has W or the tag is
\* IniE; in an IniF process a section with W is copied into a freshly
\* acquired, zeroed page and a section without W is not copied and acquires
\* no page
C7_WritableIntoFreshPage ==
    lp.tag \in {"IniE", "IniF"} =>
        \A k \in DOMAIN gh.secs :
            /\ gh.secs[k].copied <=> Wanted(gh.secs[k])
            /\ lp.tag = "IniF" /\ gh.secs[k].w =>
                  gh.secs[k].fresh /\ ZeroedPageAt(gh.secs[k].top)
            /\ lp.tag = "IniF" /\ ~gh.secs[k].w =>
                  gh.secs[k].acquired = 0 /\ gh.secs[k].wrote = 0

\* C7 (amended): a section is copied exactly when it has W or the tag is
\* IniE; a copied section starts in a freshly acquired, zeroed page exactly
\* when its virt lies in another virtual page than the end of the copied
\* data before it (address 0 when there is none) or that data ended exactly
\* at the end of a page, and otherwise continues in the page at hand; all
\* its bytes are copied unless it is NOCOPY; a section that is not copied
\* acquires no page and copies nothing
C7_CopyToRam ==
    lp.tag \in {"IniE", "IniF"} =>
        \A k \in DOMAIN gh.secs :
            /\ gh.secs[k].copied <=> Wanted(gh.secs[k])
            /\ Wanted(gh.secs[k]) =>
                  /\ gh.secs[k].fresh <=> StartsNewPage(gh.secs, k)
                  /\ gh.secs[k].fresh => ZeroedPageAt(gh.secs[k].top)
                  /\ SectionFinished(k) /\ ~gh.secs[k].nocopy => gh.secs[k].wrote = gh.secs[k].len
            /\ ~Wanted(gh.secs[k]) =>
                  gh.secs[k].acquired = 0 /\ gh.secs[k].wrote = 0

C7_Witness ==
    /\ lp.tag = "IniF"
    /\ pc = "elf_sections"
    /\ Len(gh.secs) = 2
    /\ gh.secs[1].w /\ gh.secs[1].fresh
    /\ gh.secs[2].w /\ ~gh.secs[2].fresh
    /\ gh.secs[2].len > 0 /\ gh.secs[2].wrote = gh.secs[2].len

\* ------------------------------------------------------------------------
\* Claims about the reservations of phase_1 (checked under SpecLoad)
\* ------------------------------------------------------------------------
Disjoint(a, b) == a.hi <= b.lo \/ b.hi <= a.lo

\* C8: every region reserved in phase 1 (guard pages, page tracker, process
\* table, argument copy, swap page tables, kernel blocks, per-process pages)
\* lies below all earlier reservations, so the ranges are pairwise disjoint;
\* all lie inside [sram_start, sram_start + sram_size), the guard pages as
\* soon as the first allocation below them has passed get_top (the loader
\* halts there otherwise); every per-process page is one aligned page
C8_AllocationDisjoint ==
    \A i \in DOMAIN gh.resv :
        LET r == gh.resv[i]
        IN  /\ r.lo <= r.hi /\ r.hi <= SramEnd
            /\ r.kind # "guard" \/ Len(gh.resv) > 1 => image.sram_start <= r.lo
            /\ \A j \in 1..(i - 1) : r.hi <= gh.resv[j].lo /\ Disjoint(r, gh.resv[j])
            /\ r.kind = "page" => r.lo % PAGE_SIZE = 0 /\ r.hi = r.lo + PAGE_SIZE

C8_Witness ==
    \E i \in DOMAIN gh.resv, j \in DOMAIN gh.resv :
        /\ i < j
        /\ gh.resv[i].kind = "page"
        /\ gh.resv[j].kind = "page"
        /\ gh.resv[i].pid # gh.resv[j].pid

\* ------------------------------------------------------------------------
\* Claims about copy_args (checked under SpecArgs)
\* ------------------------------------------------------------------------
IsIniS(a) == a.name = "IniS"

\* the merged stream: the primary stream followed by the IniS records of the
\* secondary stream, tag and size words included
MergedStreamBytes == PrimarySize + RecordBytes(SelectSeq(image.swap_args, IsIniS))

\* the stream validator: the first record is XArg, its data[0] is the byte
\* length of the stream, and the CRC stored at bytes 16..18 of the record is
\* that of its payload
StreamValid(a) ==
    /\ a.words[0] = "XArg"
    /\ a.words[2] = MergedStreamBytes
    /\ a.bytes_16_18 = Crc16(XargData(a.words))

\* C9: once copy_args has merged the streams, the merged buffer passes the
\* stream validator
C9_MergedStreamValid ==
    pc \in {"allocate_swap", "tags"} => StreamValid(args)

\* ------------------------------------------------------------------------
\* Claims about the swap RAM layout and the failure of decrypt_swap_from
\* (checked under SpecSwap)
\* ------------------------------------------------------------------------
\* the MAC table of a data area: 16 bytes per ciphertext page, rounded up to
\* whole pages
MacTableSize(data_len) == RoundToPage((data_len \div PAGE_SIZE) * TAG_SIZE)

\* C11: after SwapHal::new, for every swap RAM size, the ciphertext data area
\* is a multiple of PAGE_SIZE long and its length is the swap RAM size
\* (rounded down to whole pages) minus the MAC table size in bytes
C11_SwapRamLayout ==
    last.op = "new" =>
        /\ hal.data_len % PAGE_SIZE = 0
        /\ hal.data_len = PageMask(last.ram_size) - MacTableSize(hal.data_len)

\* the last call was a decrypt_swap_from that read its page and tag and
\* found that they do not authenticate
TagMismatch ==
    /\ last.op = "decrypt"
    /\ ~last.ok
    /\ DataInBounds(last.offset)
    /\ MacInBounds(last.offset)

\* C15: on a tag mismatch decrypt_swap_from hands an error value back to its
\* caller and does not panic
C15_MismatchIsErrorValue ==
    TagMismatch => ~hal.halted /\ last.out # "panic"

\* C16: when the swapper's decrypt_swap_from fails on a tag mismatch, the
\* caller's buffer holds the bytes it held before the call
C16_BufferKeptOnFailure ==
    hal.kind = "swapper" /\ TagMismatch => last.out = last.before

\* ------------------------------------------------------------------------
\* Claims about the swap page counter and the flushes of the working page
\* (checked under SpecTranscode)
\* ------------------------------------------------------------------------
\* a < b as usize values: a negative number stands for a counter that
\* wrapped around below 0, that is for a value near the largest usize
UsizeBelow(a, b) == IF (a < 0) = (b < 0) THEN a < b ELSE b < 0

\* C12: no step of copy_processes lowers cfg.swap_free_page
C12_SwapFreePageMonotonic ==
    [][~UsizeBelow(cfg'.swap_free_page, cfg.swap_free_page)]_vars

\* C13: during and after the processing of an IniS tag, with no section or
\* with zero-length sections only as well, cfg.swap_free_page is not below
\* the value it had when the tag was met
C13_NotBelowStart ==
    lp.tag = "IniS" => ~UsizeBelow(cfg.swap_free_page, lp.free_at_start)

\* C14: the virtual page addresses given to the successive encrypt_swap_to /
\* map_swap calls of one IniS process increase strictly (sections in
\* ascending, non-overlapping order)
C14_AscendingSwapWrites ==
    (lp.tag = "IniS" /\ AscendingDisjoint(gh.secs)) =>
        \A i \in 1..(Len(TagSwaps) - 1) : TagSwaps[i].vaddr < TagSwaps[i + 1].vaddr

\* C19: every flush of the working page passes to encrypt_swap_to and
\* map_swap the virtual page whose bytes the buffer holds, a page-aligned
\* swap offset and the pid of the process
C19_FlushPassesPageHeld ==
    C4_Case =>
        \A i \in DOMAIN TagSwaps :
            /\ TagSwaps[i].vaddr % PAGE_SIZE = 0
            /\ TagSwaps[i].offset % PAGE_SIZE = 0
            /\ TagSwaps[i].pid = lp.pid
            /\ IsImageOf(TagSwaps[i].page, gh.secs, "img", TagSwaps[i].vaddr)

\* ------------------------------------------------------------------------
\* Claims about the end of phase_1 and about unknown tags (checked under
\* SpecLoad)
\* ------------------------------------------------------------------------
\* page tracker indices: index 0 is the lowest page of main RAM
SramPages == image.sram_size \div PAGE_SIZE

InitPages == cfg.init_size \div PAGE_SIZE

\* C17: after phase_1 the tracker entries of the four highest pages of main
\* RAM are unmarked, the entry of every other page inside the top init_size
\* bytes is marked as the kernel's, and no other entry is marked
C17_PagesMarked ==
    pc = "done" =>
        /\ \A j \in (SramPages - 4)..(SramPages - 1) : j \notin cfg.marked
        /\ \A j \in (SramPages - InitPages)..(SramPages - 5) : j \in cfg.marked
        /\ cfg.marked \subseteq (SramPages - InitPages)..(SramPages - 5)

\* the step consumed a tag of the argument stream whose name is none of
\* IniE, IniF, IniS, XKrn
UnknownTagStep == gh'.ntags = gh.ntags + 1 /\ lp'.tag = "Other"

\* the words the merger takes from secondary record k: tag, size, payload
MergedWords(k) ==
    IF image.swap_args[k].name = "IniS"
    THEN image.swap_args[k].size \div WORD + RECORD_HEADER_WORDS
    ELSE 0

\* C18: a tag of copy_processes that is none of IniE, IniF, IniS, XKrn leaves
\* the pid counter, extra_pages, init_size and swap_free_page as they were
\* and raises no error; a secondary-stream record that is not IniS adds
\* nothing to the merged stream
C18_UnknownTagsSkipped ==
    /\ [](pc \in {"allocate_swap", "tags", "done"} =>
            /\ args.arg_index = PrimarySize + SumSeq([k \in DOMAIN image.swap_args |-> MergedWords(k)])
            /\ \A i \in DOMAIN args.words :
                  i >= PrimarySize => image.swap_args[args.words[i][2]].name = "IniS")
    /\ [][UnknownTagStep =>
            /\ lp'.pid = lp.pid
            /\ cfg' = cfg
            /\ halt' = "none"
            /\ pc' = "tags"]_vars

C18_Witness ==
    /\ pc = "tags"
    /\ lp.tag = "Other"
    /\ lp.pid = 2
    /\ cfg.extra_pages > 0
    /\ \E k \in DOMAIN image.swap_args : image.swap_args[k].name # "IniS"
    /\ args.arg_index > PrimarySize

\* ------------------------------------------------------------------------
\* Claims about the page taken at the start of a copied section (checked
\* under SpecFit)
\* ------------------------------------------------------------------------
\* the copied section before section k
PreviousCopied(secs, k) == secs[MaxOf(CopiedBefore(secs, k))]

\* the page the previous copied section last touched: that of its last
\* byte, or of its virt when it is empty
LastTouchedPage(sec) ==
    IF sec.len > 0 THEN PageMask(sec.virt + sec.len - 1) ELSE PageMask(sec.virt)

\* the previous copied section filled its final page exactly
FilledFinalPage(sec) == sec.len > 0 /\ (sec.virt + sec.len) % PAGE_SIZE = 0

\* the previous copied section ended at a page boundary, an empty section
\* that starts on one included
EndsOnPageBoundary(sec) == (sec.virt + sec.len) % PAGE_SIZE = 0

\* C20: a copied section that follows another copied section starts in a
\* newly acquired, zeroed page when its first virtual page differs from the
\* page last touched by that section or when that section exactly filled
\* its final page, and in no other case (an empty previous section that
\* starts on a page boundary may count either way)
C20_NewPageOnPageChangeOrFit ==
    lp.tag \in {"IniE", "IniF"} =>
        \A k \in DOMAIN gh.secs :
            (Wanted(gh.secs[k]) /\ CopiedBefore(gh.secs, k) # {}) =>
                /\ (\/ PageMask(gh.secs[k].virt) # LastTouchedPage(PreviousCopied(gh.secs, k))
                    \/ FilledFinalPage(PreviousCopied(gh.secs, k)))
                      => gh.secs[k].fresh
                /\ gh.secs[k].fresh =>
                      \/ PageMask(gh.secs[k].virt) # LastTouchedPage(PreviousCopied(gh.secs, k))
                      \/ EndsOnPageBoundary(PreviousCopied(gh.secs, k))
                /\ gh.secs[k].fresh => ZeroedPageAt(gh.secs[k].top)

\* the rule copy_processes applies: a new page is acquired and zeroed
\* exactly when the section's first virtual page differs from the page of
\* the address where the previous copied section ended (the page of its
\* virt when it is empty, page 0 when there is none), or when the last
\* copied section that held any byte ended exactly on a page boundary,
\* empty sections copied since then notwithstanding
NewPageAtSectionStart ==
    lp.tag \in {"IniE", "IniF"} =>
        \A k \in DOMAIN gh.secs :
            Wanted(gh.secs[k]) =>
                /\ gh.secs[k].fresh <=>
                      \/ PageMask(gh.secs[k].virt) # PageMask(PreviousEnd(gh.secs, k))
                      \/ EndedOnBoundary(gh.secs, k)
                /\ gh.secs[k].fresh => ZeroedPageAt(gh.secs[k].top)
                /\ ~gh.secs[k].fresh => gh.secs[k].top = (IF k = 1 THEN 0 ELSE gh.secs[k - 1].top)

\* a section that ends on a page boundary, an empty section in the middle
\* of the next page, and a section in that same page which is given a
\* page of its own
C20_Witness ==
    /\ lp.tag = "IniF"
    /\ pc = "elf_sections"
    /\ Len(gh.secs) = 3
    /\ \A k \in 1..3 : Wanted(gh.secs[k])
    /\ FilledFinalPage(gh.secs[1])
    /\ gh.secs[2].len = 0
    /\ ~EndsOnPageBoundary(gh.secs[2])
    /\ gh.secs[2].fresh
    /\ PageMask(gh.secs[3].virt) = PageMask(gh.secs[2].virt)
    /\ gh.secs[3].len > 0
    /\ gh.secs[3].fresh
    /\ gh.secs[3].wrote = gh.secs[3].len

\* ------------------------------------------------------------------------
\* Claims about the first copied section and the source stride (checked
\* under SpecElf and SpecTranscode)
\* ------------------------------------------------------------------------
\* the copied sections of the tag met so far
CopiedSections(secs) == {k \in DOMAIN secs : secs[k].copied}

\* C21: in an IniE or IniF process the first copied section acquires and
\* zeroes a page, whatever its virtual address, and no byte of the process is
\* written outside the pages acquired for it (through the null top or
\* through a top that is not a page of the process)
C21_FirstSectionGetsPage ==
    lp.tag \in {"IniE", "IniF"} =>
        /\ \A k \in CopiedSections(gh.secs) :
               (CopiedBefore(gh.secs, k) = {} /\ gh.secs[k].len > 0) =>
                   gh.secs[k].fresh /\ ZeroedPageAt(gh.secs[k].top)
        /\ gh.stray = <<>>

\* C22: for IniE, IniF and IniS alike, the data of section k is read from
\* load_offset plus the lengths of all the sections before it, whether they
\* were copied, left in FLASH or NOCOPY
C22_SourceStride ==
    lp.tag \in {"IniE", "IniF", "IniS"} =>
        \A k \in DOMAIN gh.secs : gh.secs[k].src = SectionSource(gh.secs, k)

\* the same for the transcoder alone
SourceStrideIniS == lp.tag = "IniS" => C22_SourceStride

\* ------------------------------------------------------------------------
\* Claims about the merged argument stream (checked under SpecArgs)
\* ------------------------------------------------------------------------
\* sizeof(XArg): the seven words of the XArg record, in bytes
XargBytes == XARG_WORDS * WORD

\* the IniS records of the secondary stream, by their index in it
IniSIndices == {k \in DOMAIN image.swap_args : image.swap_args[k].name = "IniS"}

\* the word of the merged stream at which IniS record k starts when the
\* records follow the primary stream contiguously
RecordStart(k) ==
    PrimarySize \div WORD + SumSeq([j \in 1..(k - 1) |-> MergedWords(j)])

\* C23: after copy_args the merged stream is the primary stream as it was
\* (its length word apart, which is patched), followed contiguously by every
\* IniS record of the secondary stream, tag and size words included, in
\* order, and by nothing else; the space reserved for it is primary_size +
\* secondary_size - sizeof(XArg) bytes
C23_MergedStream ==
    pc \in {"allocate_swap", "tags"} =>
        /\ DOMAIN args.words = 0..((MergedStreamBytes \div WORD) - 1)
        /\ \A i \in 0..((PrimarySize \div WORD) - 1) : i # 2 => args.words[i] = PrimaryWord(i)
        /\ \A k \in IniSIndices : \A i \in 0..(MergedWords(k) - 1) :
               args.words[RecordStart(k) + i] = SecondaryWord(k, i)
        /\ args.final_len = PrimarySize + SwapXargData0 - XargBytes

\* C24: after copy_args, bytes 16..18 of the XArg record, where the stream
\* format keeps the CRC, hold the CRC-16/X25 of the patched XArg payload
C24_CrcAtFixedOffset ==
    pc \in {"allocate_swap", "tags"} => args.bytes_16_18 = Crc16(XargData(args.words))

\* ------------------------------------------------------------------------
\* Claims about the end of an IniS tag and the order of the tags (checked
\* under SpecTranscode and SpecLoad)
\* ------------------------------------------------------------------------
\* the IniS tag has been finished
IniSFinished == pc = "tags" /\ lp.tag = "IniS"

\* C25: when an IniS tag is finished, swap_free_page has advanced since the
\* start of the tag by exactly the number of pages written to swap for it:
\* a dirty working page has been flushed, a clean one given back
C25_FreePageCountsWrites ==
    IniSFinished => cfg.swap_free_page - lp.free_at_start = Len(TagSwaps)

\* the same for tags that have at least one section
FreePageCountsWritesOfSections ==
    (IniSFinished /\ gh.secs # <<>>) => cfg.swap_free_page - lp.free_at_start = Len(TagSwaps)

\* the bytes copied for the sections of the process, and the bytes that
\* reached memory: RAM through top, swap through encrypt_swap_to
BytesCopied == SumSeq([k \in DOMAIN gh.secs |-> gh.secs[k].wrote])

WriteBytes(writes) == SumSeq([i \in DOMAIN writes |-> writes[i].len])

BytesInRam ==
    SumSeq([i \in DOMAIN gh.pages |-> WriteBytes(gh.pages[i].writes)]) + WriteBytes(gh.stray)

BytesInSwap == SumSeq([i \in DOMAIN TagSwaps |-> WriteBytes(TagSwaps[i].page)])

\* nothing of the process is left to do: every copied section that is not
\* NOCOPY has been copied in full, every copied byte has reached RAM or
\* swap, and a working buffer that was left dirty is the last page written
\* to swap for the process
ProcessWritten ==
    /\ lp.btc = 0
    /\ \A k \in DOMAIN gh.secs :
          (gh.secs[k].copied /\ ~gh.secs[k].nocopy) => gh.secs[k].wrote = gh.secs[k].len
    /\ BytesCopied = BytesInRam + BytesInSwap
    /\ lp.dirty => /\ TagSwaps # <<>>
                   /\ TagSwaps[Len(TagSwaps)].page = lp.wbuf

\* C26: copy_processes starts the next process (_pid += 1) only when all the
\* sections of the previous one have been written: every byte to copy has
\* been placed in RAM or written to swap and no dirty working buffer of an
\* IniS process is left unflushed
C26_SectionsBeforeNextProcess == [][lp'.pid # lp.pid => ProcessWritten]_vars

\* the third process has been started after an IniS process whose bytes
\* were written to swap
C26_Witness ==
    /\ lp.pid = 3
    /\ lp.tag \in {"IniE", "IniF", "IniS"}
    /\ \E i \in DOMAIN gh.swaps : gh.swaps[i].pid = 2 /\ WriteBytes(gh.swaps[i].page) > 0

\* ------------------------------------------------------------------------
\* Claims about the copy loop of the transcoder (checked under
\* SpecTranscode)
\* ------------------------------------------------------------------------
\* an iteration of the while loop of an IniS section that ran to its end
CopyStep == pc = "swap_copy" /\ pc' \in {"swap_copy", "swap_sections"}

\* the bytes the iteration put into the working buffer, which is in swap
\* already when the iteration filled it
CopiedChunk ==
    IF lp'.wbuf # <<>> THEN lp'.wbuf[Len(lp'.wbuf)]
    ELSE LET page == gh'.swaps[Len(gh'.swaps)].page IN page[Len(page)]

\* C27: the decrypt buffer always holds the plaintext of the source page at
\* decrypt_page_addr(); whenever the transcoder copies bytes out of it that
\* page is the one containing src_img, the bytes copied are those at
\* src_img, and decrypt_src_page_at has been called in that iteration
\* exactly when decrypt_page_addr() differed from the page of src_img
C27_BufferHoldsSourcePage ==
    /\ [](pc # "halt" => swap_buf = [kind |-> "src", page |-> buf_addr])
    /\ [][CopyStep =>
              /\ buf_addr' = PageMask(lp.src)
              /\ ~lp.nocopy => CopiedChunk.src = [kind |-> "img", addr |-> lp.src]
              /\ IF buf_addr # PageMask(lp.src)
                 THEN gh'.decrypts = Append(gh.decrypts, PageMask(lp.src))
                 ELSE gh'.decrypts = gh.decrypts]_vars

\* a section whose bytes lie in two source pages has been copied: two
\* pages were decrypted, and more iterations ran than pages were decrypted
C27_Witness ==
    /\ pc = "swap_sections"
    /\ lp.tag = "IniS"
    /\ Len(gh.secs) = 2
    /\ gh.decrypts = <<4096, 8192>>
    /\ buf_addr = 8192
    /\ \A k \in 1..2 : gh.secs[k].wrote = gh.secs[k].len /\ gh.secs[k].len > 0

\* ------------------------------------------------------------------------
\* Claims about the termination of the copy loops (checked under SpecCopy)
\* ------------------------------------------------------------------------
\* an iteration of the while loop of an IniE/IniF section that ran to its end
ElfCopyStep == pc = "elf_copy" /\ pc' \in {"elf_copy", "elf_sections"}

\* the section being copied
CurrentSection == gh.secs[Len(gh.secs)]

\* C28: the copy loops of the IniE/IniF loader and of the IniS transcoder
\* terminate.  Every iteration copies at least one byte and never more than
\* remains; an IniS iteration copies min(decrypt_avail, dst_avail, remaining)
\* bytes and advances dst_vaddr and src_img by as much; when the loop is
\* left remaining is 0 and dst_vaddr (for IniS src_img too) has advanced by
\* section.len; and a loop that has been entered is left
C28_CopyLoopsTerminate ==
    /\ [][CopyStep =>
              /\ lp.btc - lp'.btc = Min(PAGE_SIZE - (lp.src % PAGE_SIZE),
                                         Min(PAGE_SIZE - (lp.dst % PAGE_SIZE), lp.btc))
              /\ lp.btc - lp'.btc >= 1
              /\ lp'.btc >= 0
              /\ lp'.dst - lp.dst = lp.btc - lp'.btc
              /\ lp'.src - lp.src = lp.btc - lp'.btc
              /\ pc' = "swap_sections" =>
                    /\ lp'.btc = 0
                    /\ lp'.dst = CurrentSection.virt + CurrentSection.len
                    /\ lp'.src = CurrentSection.src + CurrentSection.len]_vars
    /\ [][ElfCopyStep =>
              /\ lp.btc - lp'.btc >= 1
              /\ lp'.btc >= 0
              /\ lp'.dst - lp.dst = lp.btc - lp'.btc
              /\ pc' = "elf_sections" =>
                    /\ lp'.btc = 0
                    /\ lp'.dst = CurrentSection.virt + CurrentSection.len]_vars
    /\ (pc = "swap_copy") ~> (pc # "swap_copy")
    /\ (pc = "elf_copy") ~> (pc # "elf_copy")

\* a section longer than a page has been copied by each loader, in more
\* than one iteration
C28_Witness ==
    /\ pc \in {"swap_sections", "elf_sections"}
    /\ lp.pid = 3
    /\ gh.secs # <<>>
    /\ CurrentSection.len > PAGE_SIZE
    /\ CurrentSection.wrote = CurrentSection.len
    /\ CurrentSection.acquired > 1
    /\ lp.btc = 0
    /\ lp.tag = "IniS"
    /\ \E i, j \in DOMAIN gh.resv :
          i # j /\ \A n \in {i, j} : gh.resv[n].kind = "page" /\ gh.resv[n].pid = 2

\* ------------------------------------------------------------------------
\* Claims about the nonce of swap RAM pages (checked under SpecSwap)
\* ------------------------------------------------------------------------
\* the high 24 bits of a 32-bit value, most significant byte first
High24(x) == << (x \div 16777216) % 256, (x \div 65536) % 256, (x \div 256) % 256 >>

\* the 12-byte nonce of a page in swap RAM at boot: bytes 0..4 the swap
\* count 0, byte 4 zero, byte 5 the pid, bytes 6..9 the high 24 bits of the
\* page-aligned swap offset, bytes 9..12 those of the page-aligned virtual
\* address
DestinationNonce(offset, vaddr, pid) ==
    <<0, 0, 0, 0, 0, pid>> \o High24(offset - (offset % PAGE_SIZE)) \o High24(vaddr - (vaddr % PAGE_SIZE))

\* C29: for the same swap offset, virtual address and pid, the loader's
\* encrypt_swap_to and the swapper's encrypt_swap_to and decrypt_swap_from
\* with swap_count = 0 build the same nonce, the one laid out above: every
\* page stored with swap count 0 by either SwapHal carries it, and the
\* swapper's decrypt_swap_from accepts a page exactly under it
C29_NonceAgreement ==
    /\ \A o \in Offsets, v \in VAddrs, p \in Pids :
          /\ LoaderNonce(o, v, p) = DestinationNonce(o, v, p)
          /\ SwapperNonce(0, o, v, p) = DestinationNonce(o, v, p)
    /\ \A i \in DOMAIN origin :
          (origin[i].set /\ ~origin[i].data_changed /\ origin[i].swap_count = 0) =>
              dst_data_area[i].nonce = DestinationNonce(origin[i].offset, origin[i].vaddr, origin[i].pid)
    /\ (hal.kind = "swapper" /\ last.op = "decrypt" /\ last.swap_count = 0) =>
          /\ last.ok => dst_data_area[PageIndex(last.offset)].nonce
                            = DestinationNonce(last.offset, last.vaddr, last.pid)
          /\ C1_Case => last.ok

\* the swapper has decrypted, with swap count 0 and a virtual address inside
\* the page, the page it stored in the second slot
C29_Witness ==
    /\ hal.kind = "swapper"
    /\ last.op = "decrypt"
    /\ last.ok
    /\ last.swap_count = 0
    /\ last.offset = PAGE_SIZE
    /\ last.vaddr = 65552
    /\ last.pid = 3
    /\ dst_data_area[1].nonce = <<0, 0, 0, 0, 0, 3, 0, 0, 16, 0, 1, 0>>

\* ------------------------------------------------------------------------
\* Claims about the page tracker (checked under SpecLoad)
\* ------------------------------------------------------------------------
\* allocate_regions has built the tracker
TrackerBuilt == \E i \in DOMAIN gh.resv : gh.resv[i].kind = "tracker"

TrackerBytes ==
    LET i == CHOOSE i \in DOMAIN gh.resv : gh.resv[i].kind = "tracker"
    IN  gh.resv[i].hi - gh.resv[i].lo

\* C30 as stated: the tracker has exactly sram_size / PAGE + the sum of
\* region.length / PAGE entries
C30_TrackerLength ==
    TrackerBuilt =>
        cfg.rpt_pages = image.sram_size \div PAGE_SIZE
                          + SumSeq([i \in DOMAIN image.regions |-> image.regions[i] \div PAGE_SIZE])

\* the pages of the machine: those of main RAM and, for every region, the
\* pages its length reaches into
MachinePages ==
    image.sram_size \div PAGE_SIZE
      + SumSeq([i \in DOMAIN image.regions |-> (image.regions[i] + PAGE_SIZE - 1) \div PAGE_SIZE])

\* C30 (amended): the tracker has one one-byte entry for every page of main
\* RAM and for every page a region reaches into (a region's length is
\* rounded up to whole pages), and the number of entries is then rounded up
\* to a multiple of four, the size of a pointer
C30_TrackerLengthRounded ==
    TrackerBuilt =>
        /\ cfg.rpt_pages = ((MachinePages + 3) \div 4) * 4
        /\ TrackerBytes = cfg.rpt_pages

\* nine pages of RAM and a region of a page and a half: eleven pages,
\* twelve entries
C30_Witness ==
    /\ TrackerBuilt
    /\ image.sram_size = 9 * PAGE_SIZE
    /\ image.regions = <<6144>>
    /\ cfg.rpt_pages = 12
    /\ pc = "done"

\* ------------------------------------------------------------------------
\* The process table and the swap page tables
\* ------------------------------------------------------------------------
ReservationsOf(kind) == {i \in DOMAIN gh.resv : gh.resv[i].kind = kind}

\* C31: allocate_processes reserves (1 + init_process_count) descriptors'
\* worth of bytes and zero-fills them; allocate_swap then gives every
\* descriptor a swap_root naming its own page-table-sized block, the blocks
\* pairwise disjoint, page-aligned and inside allocate_swap's reservation
C31_ProcessTableAndSwapRoots ==
    /\ \A i \in ReservationsOf("processes") :
          LET r == gh.resv[i]
              bytes == (1 + image.init_process_count) * INITIAL_PROCESS_WORDS * WORD
          IN  /\ r.hi - r.lo = bytes
              /\ cfg.table_zeroed = bytes
    /\ \A i \in ReservationsOf("swap_pt") :
          LET r == gh.resv[i]
              root == cfg.swap_root
          IN  /\ Len(root) = 1 + image.init_process_count
              /\ \A p \in DOMAIN root :
                    /\ root[p] % PAGE_SIZE = 0
                    /\ r.lo <= root[p]
                    /\ root[p] + PAGE_TABLE_SIZE <= r.hi
              /\ \A p, q \in DOMAIN root :
                    p # q => \/ root[p] + PAGE_TABLE_SIZE <= root[q]
                             \/ root[q] + PAGE_TABLE_SIZE <= root[p]

C31_Witness ==
    /\ ReservationsOf("processes") # {}
    /\ ReservationsOf("swap_pt") # {}
    /\ Len(cfg.swap_root) = 3
    /\ cfg.swap_root[2] = cfg.swap_root[1] + PAGE_TABLE_SIZE

\* ------------------------------------------------------------------------
\* Swap pages over a whole boot
\* ------------------------------------------------------------------------
\* tags in the argument stream of a boot long enough for _pid to come round
MaxBootTags == 257

\* the section of a small swapped process
BootSection == [virt |-> 69648, len |-> 32, w |-> FALSE, nocopy |-> FALSE]

\* the sections of the k-th IniS tag of the boot image: processes come in
\* pairs, two of one section each, then two without sections
TagSections(k) == IF k % 4 \in {1, 2} THEN <<BootSection>> ELSE <<>>

\* a machine with room for the tables of that many processes
BootImage == [BaseImage EXCEPT !.init_process_count = MaxBootTags, !.sram_size = 512 * PAGE_SIZE]

\* the loop over the sections of the current tag, and its end
BootSwapSection ==
    /\ Len(gh.secs) < Len(TagSections(gh.ntags))
    /\ SwapSectionUpTo({TagSections(gh.ntags)[Len(gh.secs) + 1]}, MaxBootTags)

BootSwapDone ==
    /\ Len(gh.secs) = Len(TagSections(gh.ntags))
    /\ SwapDone

NextBoot ==
    \/ Phase1Guard
    \/ AllocateRegions
    \/ AllocateProcesses
    \/ CopyArgs
    \/ AllocateSwap
    \/ TagIniSUpTo(MaxBootTags)
    \/ BootSwapSection
    \/ SwapCopy
    \/ BootSwapDone
    \/ MarkPages

SpecBoot == InitLoad({BootImage}) /\ [][NextBoot]_vars

\* C32: over a boot no swap RAM page is written by encrypt_swap_to more than
\* once: an offset that holds a page of one process is never handed out
\* again to a later flush of the same or of another process
C32_SwapPageWrittenOnce ==
    \A i, j \in DOMAIN gh.swaps : i # j => gh.swaps[i].offset # gh.swaps[j].offset

\* C33: for one IniS process no two different swap pages are recorded by
\* map_swap at the same virtual page
C33_OneSwapPagePerVirtualPage ==
    \A i, j \in DOMAIN gh.swaps :
        (gh.swaps[i].pid = gh.swaps[j].pid /\ gh.swaps[i].vaddr = gh.swaps[j].vaddr)
            => gh.swaps[i].offset = gh.swaps[j].offset

\* C36: no two encrypt_swap_to calls of the loader during one boot use the
\* same nonce: the (swap count, pid, swap page, virtual page) tuples of the
\* pages written to swap are pairwise distinct
C36_NoncesDistinct ==
    LET tuple == [i \in DOMAIN gh.swaps |-> <<0, gh.swaps[i].pid, gh.swaps[i].offset, gh.swaps[i].vaddr>>]
        nonce == [i \in DOMAIN gh.swaps |->
                     LoaderNonce(gh.swaps[i].offset, gh.swaps[i].vaddr, gh.swaps[i].pid)]
    IN  \A i, j \in DOMAIN gh.swaps : i # j => tuple[i] # tuple[j] /\ nonce[i] # nonce[j]

\* ------------------------------------------------------------------------
\* The two SwapHal constructors and the bounds of swap RAM
\* ------------------------------------------------------------------------
\* the start of dst_mac_area, as an offset from the base of swap RAM:
\* swap.ram_offset + ram_size_actual, swap_slice.add(ram_size_actual)
MacStart == hal.data_len

\* C34: for every swap RAM size the loader's SwapHal and the swapper's
\* SwapHal compute the same length of the ciphertext data area, hence the
\* same start of the MAC table: whichever of the two was built for a size
\* has the data area the other would have
C34_SameLayout ==
    last.op = "new" =>
        /\ hal.data_len = LoaderRamSizeActual(last.ram_size)
        /\ hal.data_len = SwapperRamSizeActual(last.ram_size)
        /\ LoaderMacSize(last.ram_size) = SwapperMacSize(last.ram_size)

\* C35: for every swap RAM size the data area and the MAC area set up by
\* SwapHal::new lie inside the swap RAM, do not overlap, and every page that
\* fits in the data area has its 16-byte tag slot inside the MAC area
C35_AreasInsideSwapRam ==
    last.op = "new" =>
        /\ 0 <= hal.data_len
        /\ hal.data_len <= last.ram_size
        /\ MacStart + hal.mac_len <= last.ram_size
        /\ hal.data_len <= MacStart
        /\ \A i \in 0..((hal.data_len \div PAGE_SIZE) - 1) : (i + 1) * TAG_SIZE <= hal.mac_len

\* ------------------------------------------------------------------------
\* The loader's decrypt buffer and its address
\* ------------------------------------------------------------------------
\* pages of the swap source image in FLASH (ssh.mac_offset / 4096)
MaxSrcPages == 2

\* offsets handed to decrypt_src_page_at: the pages of the image and the
\* page after its end
SrcOffsets == {n * PAGE_SIZE : n \in 0..MaxSrcPages}

\* decrypt_src_page_at: buf_addr is set first, then the ciphertext is copied
\* into the buffer and decrypted in place; an offset outside src_data_area
\* panics at the slice, before the copy (the image in FLASH authenticates)
LoaderDecryptSrcPageAt ==
    /\ hal.kind = "loader"
    /\ Running
    /\ \E offset \in SrcOffsets :
        LET inb == offset + PAGE_SIZE <= MaxSrcPages * PAGE_SIZE
        IN  /\ buf_addr' = offset
            /\ swap_buf' = IF inb THEN [kind |-> "src", page |-> offset] ELSE swap_buf
            /\ hal' = [hal EXCEPT !.halted = ~inb]
            /\ last' = [NoCall EXCEPT !.op = "decrypt_src", !.offset = offset, !.ok = inb]
    /\ UNCHANGED <<dst_data_area, dst_mac_area, origin, attacks>>

\* the calls of the loader on its SwapHal
NextBuf ==
    \/ LoaderNew /\ UNCHANGED loadVars
    \/ LoaderDecryptSrcPageAt /\ UNCHANGED loadVars
    \/ LoaderEncrypt /\ UNCHANGED loadVars
    \/ LoaderDecrypt /\ UNCHANGED loadVars

SpecBuf == InitSwap /\ [][NextBuf]_vars

\* C37: after any sequence of decrypt_src_page_at and decrypt_swap_from calls
\* on the loader's SwapHal that returned, decrypt_page_addr() names the
\* source page whose plaintext the internal buffer holds
C37_AddressNamesBuffer ==
    (hal.kind = "loader" /\ last.op \in {"decrypt_src", "decrypt"} /\ last.ok) =>
        /\ swap_buf.kind = "src"
        /\ swap_buf.page = buf_addr

\* source page 0x1000 was decrypted, then a page came back from swap RAM
C37_Witness ==
    /\ hal.kind = "loader"
    /\ last.op = "decrypt"
    /\ last.ok
    /\ buf_addr = PAGE_SIZE
    /\ swap_buf.kind = "swap"

\* ------------------------------------------------------------------------
\* Virtual pages and physical pages of an IniE/IniF process
\* ------------------------------------------------------------------------
\* the virtual pages that hold a byte of a copied section
TouchedPages(secs) ==
    {p \in CandidatePages(secs) :
        \E k \in CopiedSections(secs) :
            secs[k].len > 0 /\ secs[k].virt < p + PAGE_SIZE /\ p < secs[k].virt + secs[k].len}

\* C38: when an IniE or IniF process has been copied, zero-length sections
\* included, the physical pages acquired for it are as many as the virtual
\* pages its copied sections touch: no virtual page has two physical pages
\* or none, and no acquired page is left without a virtual page
C38_OnePagePerVirtualPage ==
    (pc = "tags" /\ lp.tag \in {"IniE", "IniF"}) =>
        Len(gh.pages) = Cardinality(TouchedPages(gh.secs))

\* a process of three copied sections, the second empty, that touch three
\* virtual pages and were given four physical pages
C38_Witness ==
    /\ pc = "tags"
    /\ lp.tag = "IniF"
    /\ Len(gh.secs) = 3
    /\ \A k \in 1..3 : gh.secs[k].copied
    /\ gh.secs[2].len = 0
    /\ Cardinality(TouchedPages(gh.secs)) = 3
    /\ Len(gh.pages) = 4

\* ------------------------------------------------------------------------
\* Where the writes of copy_args land
\* ------------------------------------------------------------------------
\* the bytes of word i of merged_arg_slice
WordBytes(a, i) == [lo |-> a.base + i * WORD, hi |-> a.base + (i + 1) * WORD]

\* C39: every write of the argument merger (the copy of the primary stream,
\* each appended IniS record, the patched length and the patched CRC) lands
\* inside the final_len bytes reserved for the merged stream, and never in
\* the memory reserved earlier for the page tracker or the process table
C39_WritesInsideReservation ==
    args.final_len > 0 =>
        /\ \A i \in DOMAIN args.words :
              /\ args.base <= WordBytes(args, i).lo
              /\ WordBytes(args, i).hi <= args.base + args.final_len
        /\ \A i \in DOMAIN args.words :
              \A r \in ReservationsOf("tracker") \cup ReservationsOf("processes") :
                  \/ WordBytes(args, i).hi <= gh.resv[r].lo
                  \/ gh.resv[r].hi <= WordBytes(args, i).lo

\* an IniS record was appended and one of its words lies in the process
\* table
C39_Witness ==
    /\ args.final_len > 0
    /\ \E i \in DOMAIN args.words, r \in ReservationsOf("processes") :
          /\ gh.resv[r].lo < WordBytes(args, i).hi
          /\ WordBytes(args, i).lo < gh.resv[r].hi

====
